---- MODULE Spec2Model ----
(***************************************************************************)
(* Streaming-response reconciliation and retry layer of file_visualization *)
(*                                                                         *)
(*   api/process-gemini-stream.py  Handler.do_POST, the Flask route and    *)
(*                                 gemini_stream_generator                 *)
(*   api/gemini-stream-edge.py     gemini_stream_endpoint and              *)
(*                                 process_stream_request                  *)
(*   server.py                     process_file.generate (/api/process)    *)
(*                                                                         *)
(* One request is handled per behaviour; Init picks the endpoint that      *)
(* receives it.  The upstream service is the environment: every result of  *)
(* an upstream call (a chunk, the end of the stream, an exception) is a    *)
(* nondeterministic input of the action that consumes it.  A text is a     *)
(* sequence of characters; " " is the only whitespace character.           *)
(***************************************************************************)
EXTENDS Integers, Sequences, FiniteSets, TLC

VARIABLES
    endpoint,           \* which endpoint handles the request
    pc,                 \* position of the handler / generator
    request,            \* the request body
    response,           \* HTTP status of the response, 0 while undecided
    events,             \* events delivered to the client, in order
    calls,              \* upstream generation calls made, in order
    delivered,          \* chunk objects the upstream streams have yielded
    stream_result,      \* how the primary stream or call ended (pending before that)
    failures,           \* server.py: the exceptions the retry handler has caught
    body,               \* the JSON body of a response that is not an event stream
    client_ops,         \* client construction and model operations invoked, in order
    truncated_content,  \* process-gemini-stream.py: the prompt text
    html_content,       \* process-gemini-stream.py and server.py: accumulator
    chunk_buffer,       \* process-gemini-stream.py: texts not yet flushed
    has_sent_content,   \* process-gemini-stream.py
    prompt,             \* gemini-stream-edge.py: the prompt
    accumulated_content,\* gemini-stream-edge.py: accumulator
    chunks_received,    \* gemini-stream-edge.py
    retry_attempt,      \* server.py: the loop variable of generate()
    sleeps,             \* server.py: the time.sleep calls made, in order (without jitter)
    proc,               \* the key genai.configure installed in the process, and the
                        \* requests the process handles concurrently
    client,             \* whether the caller is still connected, and what had been
                        \* read and sent when it went away
    waited,             \* the keepalive intervals that have passed since an event
                        \* was last sent
    extraction,         \* a response object and the text read from it
    clock               \* process-gemini-stream.py: the times the loop keeps, and the
                        \* times since its events, in whole seconds

vars == <<endpoint, pc, request, response, events, calls, delivered, stream_result, failures,
          body, client_ops,
          truncated_content, html_content, chunk_buffer, has_sent_content,
          prompt, accumulated_content, chunks_received, retry_attempt, sleeps, proc, client, waited, extraction, clock>>

streamVars == <<truncated_content, html_content, chunk_buffer, has_sent_content>>
edgeVars == <<prompt, accumulated_content, chunks_received>>
serverVars == <<retry_attempt, sleeps, failures>>
\* the state around one request: what the process shares between requests,
\* the caller's end of the connection, the wall clock, and the response
\* object whose text is read
envVars == <<proc, client, waited, extraction, clock>>
\* the state of the handling of one request
requestVars == <<endpoint, pc, request, response, events, calls, delivered, stream_result,
                 failures, body, client_ops, streamVars, edgeVars, retry_attempt, sleeps>>

----------------------------------------------------------------------------
(* Bounds of the model *)

\* chunks one upstream stream yields at most
MaxChunks == 3
\* chunks the streams of one /api/process request yield at most, in total
MaxServerChunks == 1
\* chunks a long upstream stream yields at most
MaxLongChunks == 15
\* chunks at the end of a long stream that are of every shape
FreeChunks == 3

(* Program constants *)

GEMINI_MAX_OUTPUT_TOKENS == 65536
\* GEMINI_TEMPERATURE = 1.0, in tenths
GEMINI_TEMPERATURE == 10
\* content[:max_content_length]
max_content_length == 100000
\* content_limit of gemini-stream-edge.py
content_limit == 100000
\* truncated_content[:500] in the placeholder documents
PREVIEW_LENGTH == 500
\* len(chunk_buffer) >= 3
BUFFER_FLUSH == 3
\* chunks_received % 15
KEEPALIVE_CHUNKS == 15

----------------------------------------------------------------------------
(* Texts *)

Min(a, b) == IF a <= b THEN a ELSE b
Max(a, b) == IF a >= b THEN a ELSE b

\* s[:n]
Prefix(s, n) == SubSeq(s, 1, Min(Len(s), n))

\* ''.join(parts)
RECURSIVE Join(_)
Join(parts) == IF parts = <<>> THEN <<>> ELSE Head(parts) \o Join(Tail(parts))

\* len(s.split()): the number of maximal runs of non-whitespace characters
WordCount(s) ==
    Cardinality({i \in 1..Len(s) : s[i] # " " /\ (i = 1 \/ s[i-1] = " ")})

\* the estimate without the floor of one token
ApproxTokensUnclamped(s) == (WordCount(s) * 13) \div 10

\* max(1, int(len(s.split()) * 1.3))
ApproxTokens(s) == Max(1, (WordCount(s) * 13) \div 10)

\* texts a chunk or a response may carry
ChunkTexts == {<<>>, <<"a">>, <<" ">>}

\* Shapes of an upstream chunk or response object:
\*   text    it has a text attribute whose value is .text
\*   parts   it has no text attribute and a parts collection .parts
\*   raises  reading its text attribute raises (not an AttributeError)
Chunks ==
    {[shape |-> "text", text |-> t, parts |-> <<>>] : t \in ChunkTexts}
    \cup {[shape |-> "parts", text |-> <<>>, parts |-> <<<<"a">>, <<"b">>>>],
          [shape |-> "raises", text |-> <<>>, parts |-> <<>>]}

\* A request body: present is the set of members the JSON object has; an
\* absent text member is read as "" by data.get(name, '').  max_tokens = 0
\* stands for an absent max_tokens.
BaseRequest ==
    [present |-> {"api_key", "content"}, api_key |-> <<"k">>, content |-> <<"c", " ", "d">>,
     source |-> <<>>, format_prompt |-> <<>>, additional_prompt |-> <<>>, max_tokens |-> 0]

\* a content longer than the preview the placeholder and the reduced prompt keep
LongContent == [i \in 1..(PREVIEW_LENGTH + 1) |-> IF i % 2 = 1 THEN "x" ELSE " "]

\* a content one character longer than the longest the endpoints send upstream
OverlongContent == [i \in 1..(max_content_length + 1) |-> "x"]

StreamingRequests ==
    {BaseRequest,
     [BaseRequest EXCEPT !.present = {"api_key", "source"}, !.content = <<>>, !.source = <<"s">>],
     [BaseRequest EXCEPT !.present = {"api_key", "content", "source"}, !.source = <<"s">>],
     [BaseRequest EXCEPT !.present = {"content"}, !.api_key = <<>>],
     [BaseRequest EXCEPT !.content = <<>>],
     [BaseRequest EXCEPT !.present = {"api_key"}, !.content = <<>>]}

Requests(ep) ==
    CASE ep = "process-gemini-stream" ->
           StreamingRequests \cup
           {[BaseRequest EXCEPT !.present = @ \cup {"format_prompt"}, !.format_prompt = <<"f">>]}
      [] ep = "gemini-stream-edge" ->
           StreamingRequests \cup
           {[BaseRequest EXCEPT !.present = @ \cup {"format_prompt", "max_tokens"},
                                !.format_prompt = <<"f">>, !.max_tokens = 1000]}
      [] ep = "process-gemini" ->
           StreamingRequests \cup
           {[BaseRequest EXCEPT !.present = @ \cup {"format_prompt"}, !.format_prompt = <<"f">>],
            [BaseRequest EXCEPT !.content = LongContent]}
      [] ep = "gemini-edge" ->
           StreamingRequests \cup
           {[BaseRequest EXCEPT !.present = @ \cup {"format_prompt", "max_tokens"},
                                !.format_prompt = <<"f">>, !.max_tokens = 1000]}
      [] ep \in {"process_gemini", "file_visualization/process-gemini"} ->
           StreamingRequests \cup
           {[BaseRequest EXCEPT !.present = @ \cup {"format_prompt", "max_tokens"},
                                !.format_prompt = <<"f">>, !.max_tokens = 1000],
            [BaseRequest EXCEPT !.content = OverlongContent]}
      [] ep = "server" ->
           {BaseRequest,
            [BaseRequest EXCEPT !.present = {"content"}, !.api_key = <<>>],
            [BaseRequest EXCEPT !.present = {"api_key"}, !.content = <<>>],
            [BaseRequest EXCEPT !.present = @ \cup {"additional_prompt", "max_tokens"},
                                !.additional_prompt = <<"p">>, !.max_tokens = 1000]}

Endpoints ==
    {"process-gemini-stream", "gemini-stream-edge", "server",
     "process-gemini", "gemini-edge", "process_gemini", "file_visualization/process-gemini"}

----------------------------------------------------------------------------
(* Events and upstream calls *)

\* An event as the client sees it: kind is the event_type the code passes to
\* format_stream_event, name the SSE "event:" line ("" when the frame has
\* none), dtype the "type" member of the data ("" when absent), text the
\* chunk / html / delta text carried, note the message or marker,
\* output_tokens the usage.output_tokens member (0 when there is no usage).
Event(kind, name, dtype, text, note) ==
    [kind |-> kind, name |-> name, dtype |-> dtype, text |-> text, note |-> note,
     output_tokens |-> 0]

WithUsage(e, output_tokens) == [e EXCEPT !.output_tokens = output_tokens]

IsStreamStart(e) == e.kind = "stream_start"
IsComplete(e) == e.dtype = "message_complete"
IsError(e) == e.kind = "error"
IsTerminal(e) == IsComplete(e) \/ IsError(e)

Count(s, P(_)) == Cardinality({i \in 1..Len(s) : P(s[i])})

\* An upstream generation call: at is the number of events sent before it.
GenerationCall(streaming, p, config, at) ==
    [stream |-> streaming, prompt |-> p, config |-> config, at |-> at]

\* A JSON response body: html the "html" member ("" when absent), model the
\* "model" member, warning and error what the members of that name say (""
\* when absent), details what the "details" member holds ("" when absent or
\* when it is a fixed text)
Body(html, model, warning, error) ==
    [html |-> html, model |-> model, warning |-> warning, error |-> error, details |-> ""]

\* 'details': traceback.format_exc()
WithDetails(b) == [b EXCEPT !.details = "traceback"]

ErrorBody(error) == Body(<<>>, "", "", error)

NoBody == Body(<<>>, "", "", "")

----------------------------------------------------------------------------
(* The caller's end of the connection *)

\* connected until the caller goes away; chunks and events are the numbers of
\* upstream chunks read and of events produced at that moment
Connected == [connected |-> TRUE, chunks |-> 0, events |-> 0]

\* "for event in stream_generator: self.wfile.write(event)": the generator is
\* resumed after a yield only when the write of the event succeeded.  Once the
\* caller is gone the generator runs up to its next yield and is abandoned
\* there; the events it yields from then on reach nobody
Resumed == client.connected \/ Len(events) = client.events

----------------------------------------------------------------------------
(* The wall clock *)

\* keepalive intervals a stream is left waiting at most
MaxIdle == 2

\* intervals counts the whole keepalive intervals (3 seconds in
\* gemini_stream_generator) that have passed since the event number events
\* was sent
NoWait == [intervals |-> 0, events |-> 0]

\* whole keepalive intervals that have passed since the last event was sent
Idle == IF Len(events) = waited.events THEN waited.intervals ELSE 0

\* "current_time - last_keepalive_time >= 3", in seconds
KEEPALIVE_SECONDS == 3

\* whole seconds that pass while the generator waits for a chunk or for the
\* model, and while it is suspended at the yield of a keepalive
Elapsed == {0, KEEPALIVE_SECONDS - 1, KEEPALIVE_SECONDS}
Suspended == {0, 1}

\* The clock, in whole seconds.  last_keepalive and last_yield are the times
\* since last_keepalive_time and last_yield_time, the variables of the loop;
\* sent is the time since an event that holds the connection open, a
\* keepalive or a batch of content, was last yielded; gap is what sent was
\* when the last keepalive was yielded.  A time is kept up to
\* KEEPALIVE_SECONDS, which also stands for "longer" and for "never", and
\* last_yield up to one second, the first whole second above the 0.2 s the
\* loop compares it with.
NoClock ==
    [last_keepalive |-> 0, last_yield |-> 0, sent |-> KEEPALIVE_SECONDS, gap |-> KEEPALIVE_SECONDS]

\* seconds pass
Advance(c, seconds) ==
    [c EXCEPT !.last_keepalive = Min(@ + seconds, KEEPALIVE_SECONDS),
              !.last_yield = Min(@ + seconds, 1),
              !.sent = Min(@ + seconds, KEEPALIVE_SECONDS)]

\* a keepalive event is yielded
KeepaliveYielded(c) == [c EXCEPT !.gap = c.sent, !.sent = 0]

\* yield format_stream_event("keepalive", ...); last_keepalive_time = current_time
AfterKeepalive(c) == [KeepaliveYielded(c) EXCEPT !.last_keepalive = 0]

\* the flush that leaves last_keepalive_time as it is
AfterFlushKeepaliveKept(c) == [c EXCEPT !.sent = 0, !.last_yield = 0]

\* the content is yielded; last_yield_time = current_time;
\* last_keepalive_time = current_time
AfterFlush(c) == [c EXCEPT !.sent = 0, !.last_yield = 0, !.last_keepalive = 0]

----------------------------------------------------------------------------
(* api/process-gemini-stream.py *)

\* format_stream_event(event_type, data): "event: <event_type>\ndata: <data>"
StreamEvent(event_type, dtype, text, note) ==
    Event(event_type, event_type, dtype, text, note)

\* content = data.get('content', '') or data.get('source', '')
StreamContent(req) == IF req.content # <<>> THEN req.content ELSE req.source

\* truncated_content = content[:max_content_length] (+ "\n\n" + format_prompt)
StreamPrompt(req) ==
    IF req.format_prompt # <<>>
    THEN Prefix(StreamContent(req), max_content_length) \o <<" ">> \o req.format_prompt
    ELSE Prefix(StreamContent(req), max_content_length)

\* generation_config of gemini_stream_generator
StreamConfig ==
    [max_output_tokens |-> GEMINI_MAX_OUTPUT_TOKENS, temperature |-> GEMINI_TEMPERATURE]

\* the static placeholder documents: a fixed frame around truncated_content[:500]
FallbackHtml(why, content) == <<"PLACEHOLDER", " ">> \o Prefix(content, PREVIEW_LENGTH) \o <<" ", why>>

\* chunk.text if hasattr(chunk, 'text') else ""
StreamChunkText(chunk) == IF chunk.shape = "text" THEN chunk.text ELSE <<>>

\* the completion event: format_stream_event("content", {"type": "message_complete", ...})
StreamCompleteEvent(html) ==
    WithUsage(StreamEvent("content", "message_complete", html, ""), ApproxTokens(html))

\* process_stream_request up to the return of the generator, or an error response
StreamAccept(req, available, clientOk) ==
    IF StreamContent(req) = <<>> THEN 400
    ELSE IF ~available THEN 500
    ELSE IF ~clientOk THEN 401
    ELSE 200

\* the JSON body returned with an error status
StreamErrorBody(status) ==
    IF status = 400 THEN ErrorBody("Source code or text is required")
    ELSE IF status = 500 THEN ErrorBody("package is not installed")
    ELSE IF status = 401 THEN ErrorBody("API key validation failed")
    ELSE NoBody

\* create_gemini_client(api_key) is called once the content is there and the
\* package is available, whatever the api_key is
StreamClientOps(req, available) ==
    IF StreamContent(req) # <<>> /\ available THEN <<"create_gemini_client">> ELSE <<>>

\* Handler.do_POST: the handler writes its own stream_start before it
\* iterates the generator
DoPost ==
    /\ endpoint = "process-gemini-stream"
    /\ pc = "request"
    /\ \E available \in BOOLEAN, clientOk \in BOOLEAN :
         LET status == StreamAccept(request, available, clientOk /\ request.api_key # <<>>) IN
         /\ response' = status
         /\ body' = StreamErrorBody(status)
         /\ client_ops' = StreamClientOps(request, available)
         /\ IF status = 200
            THEN /\ events' = <<StreamEvent("stream_start", "", <<>>, "handler")>>
                 /\ truncated_content' = StreamPrompt(request)
                 /\ pc' = "generator"
            ELSE /\ pc' = "done"
                 /\ UNCHANGED <<events, truncated_content>>
    /\ UNCHANGED <<envVars, endpoint, stream_result, request, calls, delivered, html_content, chunk_buffer,
                   has_sent_content, edgeVars, serverVars>>

\* process_gemini_stream_endpoint (Flask): the generator is the response body
FlaskEndpoint ==
    /\ endpoint = "process-gemini-stream"
    /\ pc = "request"
    /\ \E available \in BOOLEAN, clientOk \in BOOLEAN :
         LET status == StreamAccept(request, available, clientOk /\ request.api_key # <<>>) IN
         /\ response' = status
         /\ body' = StreamErrorBody(status)
         /\ client_ops' = StreamClientOps(request, available)
         /\ IF status = 200
            THEN /\ truncated_content' = StreamPrompt(request)
                 /\ pc' = "generator"
            ELSE /\ pc' = "done"
                 /\ UNCHANGED truncated_content
    /\ UNCHANGED <<envVars, endpoint, stream_result, request, events, calls, delivered, html_content, chunk_buffer,
                   has_sent_content, edgeVars, serverVars>>

\* gemini_stream_generator: the first two yields
GeneratorStart ==
    /\ endpoint = "process-gemini-stream"
    /\ Resumed
    /\ pc = "generator"
    /\ events' = events \o <<StreamEvent("stream_start", "", <<>>, "generator"),
                             StreamEvent("keepalive", "", <<>>, "Connection established")>>
    /\ pc' = "get_model"
    /\ clock' = KeepaliveYielded(clock)
    /\ UNCHANGED <<proc, client, waited, extraction, endpoint, body, client_ops, stream_result, request, response, calls, delivered, streamVars, edgeVars, serverVars>>

\* client.get_model(GEMINI_MODEL); when it raises, the generation_error
\* handler sends the placeholder and an error event
GetModel ==
    /\ endpoint = "process-gemini-stream"
    /\ Resumed
    /\ pc = "get_model"
    /\ client_ops' = Append(client_ops, "get_model")
    /\ \E ok \in BOOLEAN :
         IF ok
         THEN /\ pc' = "open_stream"
              /\ UNCHANGED events
         ELSE /\ events' = events \o
                    <<StreamEvent("content", "", FallbackHtml("generation_error", truncated_content), "error"),
                      StreamEvent("error", "", <<>>, "generation_error")>>
              /\ pc' = "done"
    /\ UNCHANGED <<envVars, endpoint, body, stream_result, request, response, calls, delivered, streamVars, edgeVars, serverVars>>

\* except Exception as stream_error: the error event, then either the
\* completion (html_content non-empty) or the synchronous fallback
StreamErrorHandler(evs) ==
    /\ stream_result' = "raised"
    /\ IF html_content # <<>>
       THEN /\ events' = evs \o <<StreamEvent("error", "", <<>>, "stream_error"),
                                  StreamCompleteEvent(html_content)>>
            /\ pc' = "done"
       ELSE /\ events' = evs \o <<StreamEvent("error", "", <<>>, "stream_error")>>
            /\ pc' = "sync_fallback"

\* stream = model.generate_content(contents, generation_config, stream=True)
OpenStream ==
    /\ endpoint = "process-gemini-stream"
    /\ Resumed
    /\ pc = "open_stream"
    /\ calls' = Append(calls, GenerationCall(TRUE, truncated_content, StreamConfig, Len(events)))
    /\ \E ok \in BOOLEAN :
         IF ok
         THEN /\ pc' = "streaming"
              /\ UNCHANGED <<events, stream_result>>
         ELSE StreamErrorHandler(events)
    \* the time get_model and generate_content have taken; then
    \* last_keepalive_time = time.time() and last_yield_time = time.time()
    /\ \E seconds \in Elapsed :
         clock' = [Advance(clock, seconds) EXCEPT !.last_keepalive = 0, !.last_yield = 0]
    /\ UNCHANGED <<proc, client, waited, extraction, endpoint, body, client_ops, request, response, delivered, streamVars, edgeVars, serverVars>>

\* one iteration of "for chunk in stream": waited and suspended are the
\* seconds that pass before the chunk arrives and between the two readings of
\* the clock, yieldDue whether 0.2 s have passed since last_yield_time
StreamChunk ==
    /\ endpoint = "process-gemini-stream"
    /\ Resumed
    /\ pc = "streaming"
    /\ Len(delivered) < MaxChunks
    /\ \E chunk \in Chunks, seconds \in Elapsed, suspended \in Suspended, yieldDue \in BOOLEAN :
         LET arrived == Advance(clock, seconds)
             keepaliveDue == arrived.last_keepalive >= KEEPALIVE_SECONDS
             kept == IF keepaliveDue THEN AfterKeepalive(arrived) ELSE arrived
             reread == Advance(kept, IF keepaliveDue THEN suspended ELSE 0)
         IN
         \* a keepalive interval that has passed since the last event has
         \* passed since last_keepalive_time
         /\ Idle >= 1 => seconds = KEEPALIVE_SECONDS
         /\ ~keepaliveDue => suspended = 0
         /\ reread.last_yield >= 1 => yieldDue
         /\ LET chunk_text == StreamChunkText(chunk)
                ka == IF keepaliveDue
                      THEN events \o <<StreamEvent("keepalive", "", <<>>, "")>>
                      ELSE events
                buffer == Append(chunk_buffer, chunk_text)
            IN
            /\ delivered' = Append(delivered, chunk)
            /\ IF chunk.shape = "raises"
               THEN /\ StreamErrorHandler(events)
                    /\ clock' = arrived
                    /\ UNCHANGED streamVars
               ELSE IF chunk_text = <<>>
               THEN /\ events' = ka
                    /\ pc' = "streaming"
                    /\ clock' = kept
                    /\ UNCHANGED <<streamVars, stream_result>>
               ELSE /\ has_sent_content' = TRUE
                    /\ html_content' = html_content \o chunk_text
                    /\ pc' = "streaming"
                    /\ IF yieldDue \/ Len(buffer) >= BUFFER_FLUSH
                       THEN /\ events' = ka \o <<StreamEvent("content", "", Join(buffer), "")>>
                            /\ chunk_buffer' = <<>>
                            /\ clock' = AfterFlush(reread)
                       ELSE /\ events' = ka
                            /\ chunk_buffer' = buffer
                            /\ clock' = reread
                    /\ UNCHANGED <<truncated_content, stream_result>>
    /\ UNCHANGED <<proc, client, waited, extraction, endpoint, body, client_ops, request, response, calls, edgeVars, serverVars>>

\* the iteration of the stream raises
StreamRaises ==
    /\ endpoint = "process-gemini-stream"
    /\ Resumed
    /\ pc = "streaming"
    /\ StreamErrorHandler(events)
    /\ UNCHANGED <<envVars, endpoint, body, client_ops, request, response, calls, delivered, streamVars, edgeVars, serverVars>>

\* the stream is exhausted: flush, the placeholder when nothing was
\* generated, then the statistics and the completion event
StreamExhausted ==
    /\ endpoint = "process-gemini-stream"
    /\ Resumed
    /\ pc = "streaming"
    /\ LET flushed == IF chunk_buffer # <<>>
                      THEN events \o <<StreamEvent("content", "", Join(chunk_buffer), "final")>>
                      ELSE events
           fallback_html == FallbackHtml("no_content", truncated_content)
       IN
       IF ~has_sent_content \/ html_content = <<>>
       THEN /\ html_content' = fallback_html
            /\ events' = flushed \o <<StreamEvent("content", "", fallback_html, "fallback"),
                                      StreamCompleteEvent(fallback_html)>>
       ELSE /\ html_content' = html_content
            /\ events' = flushed \o <<StreamCompleteEvent(html_content)>>
    /\ pc' = "done"
    /\ stream_result' = "exhausted"
    /\ UNCHANGED <<envVars, endpoint, body, client_ops, request, response, calls, delivered, truncated_content,
                   chunk_buffer, has_sent_content, edgeVars, serverVars>>

\* the text of a non-streaming response: response.text, else the parts
ResponseText(resp) ==
    IF resp.shape = "text" THEN resp.text
    ELSE IF resp.shape = "parts" THEN Join(resp.parts)
    ELSE <<>>

\* the synchronous fallback called without the configured temperature
SyncFallbackDefaultConfig ==
    /\ endpoint = "process-gemini-stream"
    /\ Resumed
    /\ pc = "sync_fallback"
    /\ calls' = Append(calls, GenerationCall(FALSE, truncated_content,
                                          [StreamConfig EXCEPT !.temperature = 0], Len(events)))
    /\ \E raised \in BOOLEAN, resp \in Chunks :
         LET fallback_html == FallbackHtml("generation_failed", truncated_content)
             html == IF raised \/ resp.shape = "raises" THEN fallback_html ELSE ResponseText(resp)
             sent == IF raised \/ resp.shape = "raises"
                     THEN <<StreamEvent("content", "", fallback_html, "fallback")>>
                     ELSE IF html # <<>>
                     THEN <<StreamEvent("content", "", html, "complete")>>
                     ELSE <<>>
         IN
         /\ html_content' = html
         /\ events' = events \o sent \o <<StreamCompleteEvent(html)>>
    /\ pc' = "done"
    /\ UNCHANGED <<envVars, endpoint, body, client_ops, stream_result, request, response, delivered, truncated_content,
                   chunk_buffer, has_sent_content, edgeVars, serverVars>>

\* the synchronous fallback after a stream error with nothing accumulated,
\* then the statistics and the completion event
SyncFallback ==
    /\ endpoint = "process-gemini-stream"
    /\ Resumed
    /\ pc = "sync_fallback"
    /\ calls' = Append(calls, GenerationCall(FALSE, truncated_content, StreamConfig, Len(events)))
    /\ \E raised \in BOOLEAN, resp \in Chunks :
         LET fallback_html == FallbackHtml("generation_failed", truncated_content)
             html == IF raised \/ resp.shape = "raises" THEN fallback_html ELSE ResponseText(resp)
             sent == IF raised \/ resp.shape = "raises"
                     THEN <<StreamEvent("content", "", fallback_html, "fallback")>>
                     ELSE IF html # <<>>
                     THEN <<StreamEvent("content", "", html, "complete")>>
                     ELSE <<>>
         IN
         /\ html_content' = html
         /\ events' = events \o sent \o <<StreamCompleteEvent(html)>>
    /\ pc' = "done"
    /\ UNCHANGED <<envVars, endpoint, body, client_ops, stream_result, request, response, delivered, truncated_content,
                   chunk_buffer, has_sent_content, edgeVars, serverVars>>

StreamNext ==
    \/ DoPost
    \/ FlaskEndpoint
    \/ GeneratorStart
    \/ GetModel
    \/ OpenStream
    \/ StreamChunk
    \/ StreamRaises
    \/ StreamExhausted
    \/ SyncFallback

----------------------------------------------------------------------------
(* api/gemini-stream-edge.py *)

\* format_stream_event(event_type, data): "data: <data>"; event_type is dropped
EdgeEvent(event_type, dtype, text, note) == Event(event_type, "", dtype, text, note)

\* GeminiRequest(**request_json): api_key and content are required members
EdgeValid(req) == {"api_key", "content"} \subseteq req.present

\* content = request_data.content or request_data.source or ""
EdgeContent(req) == IF req.content # <<>> THEN req.content ELSE req.source

\* the format prompt is appended, the result cut to content_limit and framed
\* by the system instruction
EdgePrompt(req) ==
    LET content == IF req.format_prompt # <<>>
                   THEN EdgeContent(req) \o <<" ">> \o req.format_prompt
                   ELSE EdgeContent(req)
    IN <<"SYSTEM_INSTRUCTION", " ">> \o Prefix(content, content_limit)

\* generation_config of process_stream_request
EdgeConfig(req) ==
    [max_output_tokens |-> IF req.max_tokens # 0 THEN req.max_tokens ELSE GEMINI_MAX_OUTPUT_TOKENS,
     temperature |-> GEMINI_TEMPERATURE]

\* chunk.text, else the texts of chunk.parts
EdgeChunkText(chunk) ==
    IF chunk.shape = "text" THEN chunk.text
    ELSE IF chunk.shape = "parts" THEN Join(chunk.parts)
    ELSE <<>>

\* the three completion events of process_stream_request
EdgeCompleteEvent(html, message) ==
    WithUsage(EdgeEvent("message_complete", "message_complete", html, message), ApproxTokens(html))

\* gemini_stream_endpoint and process_stream_request up to the status event
EdgeEndpoint ==
    /\ endpoint = "gemini-stream-edge"
    /\ pc = "request"
    /\ IF ~EdgeValid(request)
       THEN /\ response' = 500
            /\ body' = ErrorBody("Server error")
            /\ pc' = "done"
            /\ UNCHANGED <<events, prompt, client_ops>>
       ELSE \E available \in BOOLEAN, clientOk \in BOOLEAN :
            /\ response' = 200
            /\ body' = NoBody
            /\ client_ops' = IF ~available THEN <<>>
                              ELSE IF ~clientOk THEN <<"genai.configure">>
                              ELSE <<"genai.configure", "GenerativeModel">>
            /\ IF ~available
               THEN /\ events' = <<EdgeEvent("error", "error", <<>>, "not_installed")>>
                    /\ pc' = "done"
                    /\ UNCHANGED prompt
               ELSE IF ~clientOk
               THEN /\ events' = <<EdgeEvent("error", "error", <<>>, "client_error")>>
                    /\ pc' = "done"
                    /\ UNCHANGED prompt
               ELSE /\ events' = <<EdgeEvent("stream_start", "", <<>>, "Stream starting"),
                                   EdgeEvent("status", "", <<>>, "Model loaded, starting generation")>>
                    /\ prompt' = EdgePrompt(request)
                    /\ pc' = "edge_open"
    /\ UNCHANGED <<envVars, endpoint, stream_result, request, calls, delivered, streamVars,
                   accumulated_content, chunks_received, serverVars>>

\* except Exception as stream_error: the partial completion when something
\* was accumulated, else the status event that announces the fallback
EdgeStreamErrorHandler ==
    /\ stream_result' = "raised"
    /\ IF accumulated_content # <<>>
       THEN /\ events' = Append(events,
                           EdgeCompleteEvent(accumulated_content, "Generation partially complete"))
            /\ pc' = "done"
       ELSE /\ events' = Append(events, EdgeEvent("status", "", <<>>, "Trying non-streaming fallback"))
            /\ pc' = "edge_fallback"

\* response = model.generate_content(prompt, generation_config, stream=True)
EdgeOpenStream ==
    /\ endpoint = "gemini-stream-edge"
    /\ pc = "edge_open"
    /\ calls' = Append(calls, GenerationCall(TRUE, prompt, EdgeConfig(request), Len(events)))
    /\ \E ok \in BOOLEAN :
         IF ok
         THEN /\ pc' = "edge_streaming"
              /\ UNCHANGED <<events, stream_result>>
         ELSE EdgeStreamErrorHandler
    /\ UNCHANGED <<envVars, endpoint, body, client_ops, request, response, delivered, streamVars, edgeVars, serverVars>>

\* one iteration of "for chunk in response", of a stream that yields at most
\* limit chunks, each of them one of chunks
EdgeChunkFrom(limit, chunks) ==
    /\ endpoint = "gemini-stream-edge"
    /\ pc = "edge_streaming"
    /\ Len(delivered) < limit
    /\ \E chunk \in chunks :
         LET chunk_text == EdgeChunkText(chunk)
             delta == EdgeEvent("content_block_delta", "content_block_delta", chunk_text, "")
             keepalive == IF (chunks_received + 1) % KEEPALIVE_CHUNKS = 0
                          THEN <<EdgeEvent("keepalive", "keepalive", <<>>, "")>>
                          ELSE <<>>
         IN
         /\ delivered' = Append(delivered, chunk)
         /\ chunks_received' = chunks_received + 1
         /\ IF chunk.shape = "raises" \/ chunk_text = <<>>
            THEN UNCHANGED <<events, accumulated_content>>
            ELSE /\ accumulated_content' = accumulated_content \o chunk_text
                 /\ events' = events \o <<delta>> \o keepalive
    /\ UNCHANGED <<envVars, endpoint, body, client_ops, stream_result, pc, request, response, calls, streamVars, prompt, serverVars>>

EdgeChunk == EdgeChunkFrom(MaxChunks, Chunks)

\* an iteration of a long stream: its first chunks all carry the text "a",
\* its last FreeChunks chunks are of every shape
EdgeLongChunk ==
    EdgeChunkFrom(MaxLongChunks,
                  IF Len(delivered) < MaxLongChunks - FreeChunks
                  THEN {[shape |-> "text", text |-> <<"a">>, parts |-> <<>>]}
                  ELSE Chunks)

\* the iteration of the stream raises
EdgeRaises ==
    /\ endpoint = "gemini-stream-edge"
    /\ pc = "edge_streaming"
    /\ EdgeStreamErrorHandler
    /\ UNCHANGED <<envVars, endpoint, body, client_ops, request, response, calls, delivered, streamVars, edgeVars, serverVars>>

\* the stream is exhausted: the completion event
EdgeExhausted ==
    /\ endpoint = "gemini-stream-edge"
    /\ pc = "edge_streaming"
    /\ events' = Append(events, EdgeCompleteEvent(accumulated_content, "Generation complete"))
    /\ pc' = "done"
    /\ stream_result' = "exhausted"
    /\ UNCHANGED <<envVars, endpoint, body, client_ops, request, response, calls, delivered, streamVars, edgeVars, serverVars>>

\* the fallback sending its completion event before the fallback content
EdgeFallbackContentLast ==
    /\ endpoint = "gemini-stream-edge"
    /\ pc = "edge_fallback"
    /\ calls' = Append(calls, GenerationCall(FALSE, prompt, EdgeConfig(request), Len(events)))
    /\ \E raised \in BOOLEAN, resp \in Chunks :
         LET fallback_html == ResponseText(resp) IN
         IF raised \/ resp.shape = "raises"
         THEN events' = Append(events, EdgeEvent("error", "error", <<>>, "Generation failed"))
         ELSE IF fallback_html # <<>>
         THEN events' = events \o
                  <<EdgeCompleteEvent(fallback_html, "Generation complete (fallback)"),
                    EdgeEvent("content", "content", fallback_html, "")>>
         ELSE events' = Append(events,
                  EdgeEvent("error", "error", <<>>, "No content from non-streaming fallback"))
    /\ pc' = "done"
    /\ UNCHANGED <<envVars, endpoint, body, client_ops, stream_result, request, response, delivered, streamVars, edgeVars, serverVars>>

\* the non-streaming fallback: its content and completion, or an error event
EdgeFallback ==
    /\ endpoint = "gemini-stream-edge"
    /\ pc = "edge_fallback"
    /\ calls' = Append(calls, GenerationCall(FALSE, prompt, EdgeConfig(request), Len(events)))
    /\ \E raised \in BOOLEAN, resp \in Chunks :
         LET fallback_html == ResponseText(resp) IN
         IF raised \/ resp.shape = "raises"
         THEN events' = Append(events, EdgeEvent("error", "error", <<>>, "Generation failed"))
         ELSE IF fallback_html # <<>>
         THEN events' = events \o
                  <<EdgeEvent("content", "content", fallback_html, ""),
                    EdgeCompleteEvent(fallback_html, "Generation complete (fallback)")>>
         ELSE events' = Append(events,
                  EdgeEvent("error", "error", <<>>, "No content from non-streaming fallback"))
    /\ pc' = "done"
    /\ UNCHANGED <<envVars, endpoint, body, client_ops, stream_result, request, response, delivered, streamVars, edgeVars, serverVars>>

\* gemini_stream_endpoint: return {"events": events, "success": True}, the
\* JSON sent with status 200 when process_stream_request has returned
EdgeResult(evs) == [events |-> evs, success |-> TRUE]

EdgeNext ==
    \/ EdgeEndpoint
    \/ EdgeOpenStream
    \/ EdgeChunk
    \/ EdgeRaises
    \/ EdgeExhausted
    \/ EdgeFallback

----------------------------------------------------------------------------
(* server.py: process_file and its generator generate() *)

\* An exception raised by an upstream call.  Of its message the handler reads:
\* word, whether it contains "Overloaded"; json, what the text between its
\* first "{" and last "}" parses to (none: no such text or not JSON;
\* overloaded_error / other_error: an object whose "error" member is an object
\* of that type; error_not_object: an object whose "error" member is a string,
\* a number or null); status529, whether it starts with "Status code 529".
Message(word, json, status529) == [word |-> word, json |-> json, status529 |-> status529]

Messages ==
    {Message(FALSE, "none", FALSE),
     Message(TRUE, "none", FALSE),
     Message(FALSE, "overloaded_error", FALSE),
     Message(FALSE, "none", TRUE),
     Message(FALSE, "other_error", FALSE),
     Message(FALSE, "error_not_object", FALSE)}

Exceptions ==
    {[type |-> "Exception", message |-> m] : m \in Messages}
    \cup {[type |-> "AttributeError", message |-> Message(FALSE, "none", FALSE)],
          [type |-> "TypeError", message |-> Message(FALSE, "none", FALSE)]}

\* chunks of client.beta.messages.stream (thinking_end is handled as
\* thinking_start is; ping stands for every type generate() ignores)
ServerChunks ==
    {[type |-> "thinking_start", text |-> <<>>],
     [type |-> "thinking_update", text |-> <<"t">>],
     [type |-> "message_delta", text |-> <<"a">>],
     [type |-> "ping", text |-> <<>>]}

\* response.content of client.messages.create, as the text the extraction yields
ServerResponses == {<<>>, <<"a", "b">>}

max_retries == 5
base_delay == 1
DEFAULT_MAX_TOKENS == 128000

\* the base delay divided, not multiplied, by the power of two
BackoffDivided(attempt) == base_delay \div (2 ^ attempt)

\* base_delay * (2 ** retry_attempt), in seconds: the delay slept is this
\* plus random.uniform(0, 0.5)
Backoff(attempt) == base_delay * (2 ^ attempt)

\* json.dumps({'type': ..., ...}) framed as "data: ..."
ServerEvent(type, text, note) == Event(type, "", type, text, note)

IsRetryNotice(e) == e.kind = "info" /\ e.note = "retry"
IsServerComplete(e) == e.kind = "complete"

\* if not api_key or not content: 400; a failing create_anthropic_client: 500
ServerAccept(req, clientOk) ==
    IF req.api_key = <<>> \/ req.content = <<>> THEN 400
    ELSE IF ~clientOk THEN 500
    ELSE 200

\* user_content
UserContent(req) ==
    IF req.additional_prompt # <<>>
    THEN req.additional_prompt \o <<" ">> \o req.content
    ELSE req.content

ServerConfig(req) ==
    [max_output_tokens |-> IF req.max_tokens # 0 THEN req.max_tokens ELSE DEFAULT_MAX_TOKENS,
     temperature |-> 10]

\* the test "Check for overloaded error"; evaluating it raises when the parsed
\* error member has no get()
ClassificationRaises(m) == ~m.word /\ m.json = "error_not_object"
IsOverloaded(m) == m.word \/ m.json = "overloaded_error" \/ m.status529

\* process_file: validation and client creation
ProcessFile ==
    /\ endpoint = "server"
    /\ pc = "request"
    /\ \E clientOk \in BOOLEAN :
         LET status == ServerAccept(request, clientOk) IN
         /\ response' = status
         /\ body' = IF status = 400 THEN ErrorBody("API key and content are required")
                    ELSE IF status = 500 THEN ErrorBody("Server error")
                    ELSE NoBody
         /\ client_ops' = IF status = 400 THEN <<>> ELSE <<"create_anthropic_client">>
         /\ pc' = IF status = 200 THEN "srv_attempt" ELSE "done"
    /\ UNCHANGED <<envVars, endpoint, stream_result, request, events, calls, delivered, streamVars, edgeVars, serverVars>>

\* the handler sleeping and retrying without the notice to the client
RetryHandlerSilent(exc, evs) ==
    LET caught(class) == [class |-> class, calls |-> Len(calls'), events |-> Len(evs)] IN
    IF ClassificationRaises(exc.message)
    THEN /\ failures' = Append(failures, caught("unclassified"))
         /\ events' = evs
         /\ pc' = "raised"
         /\ UNCHANGED <<retry_attempt, sleeps>>
    ELSE IF IsOverloaded(exc.message) /\ retry_attempt < max_retries
    THEN /\ failures' = Append(failures, caught("overloaded"))
         /\ events' = evs
         /\ sleeps' = Append(sleeps, [backoff |-> Backoff(retry_attempt), after |-> Len(evs)])
         /\ retry_attempt' = retry_attempt + 1
         /\ pc' = "srv_attempt"
    ELSE /\ failures' = Append(failures,
                           caught(IF IsOverloaded(exc.message) THEN "overloaded" ELSE "other"))
         /\ events' = Append(evs, ServerEvent("error", <<>>, "API call failed"))
         /\ pc' = "done"
         /\ UNCHANGED <<retry_attempt, sleeps>>

\* except Exception as e (the outer handler of one loop iteration)
RetryHandler(exc, evs) ==
    LET caught(class) == [class |-> class, calls |-> Len(calls'), events |-> Len(evs)] IN
    IF ClassificationRaises(exc.message)
    THEN /\ failures' = Append(failures, caught("unclassified"))
         /\ events' = evs
         /\ pc' = "raised"
         /\ UNCHANGED <<retry_attempt, sleeps>>
    ELSE IF IsOverloaded(exc.message) /\ retry_attempt < max_retries
    THEN /\ failures' = Append(failures, caught("overloaded"))
         /\ events' = Append(evs, ServerEvent("info", <<>>, "retry"))
         /\ sleeps' = Append(sleeps, [backoff |-> Backoff(retry_attempt), after |-> Len(evs) + 1])
         /\ retry_attempt' = retry_attempt + 1
         /\ pc' = "srv_attempt"
    ELSE /\ failures' = Append(failures,
                           caught(IF IsOverloaded(exc.message) THEN "overloaded" ELSE "other"))
         /\ events' = Append(evs, ServerEvent("error", <<>>, "API call failed"))
         /\ pc' = "done"
         /\ UNCHANGED <<retry_attempt, sleeps>>

\* except (AttributeError, TypeError): the notice, then the non-streaming call
InnerHandler(exc, evs) ==
    IF exc.type \in {"AttributeError", "TypeError"}
    THEN /\ events' = Append(evs, ServerEvent("info", <<>>, "non-streaming"))
         /\ pc' = "srv_create"
         /\ UNCHANGED serverVars
    ELSE RetryHandler(exc, evs)

\* one loop iteration begins: client.beta.messages.stream(...)
OpenMessageStream ==
    /\ endpoint = "server"
    /\ pc = "srv_attempt"
    /\ calls' = Append(calls, GenerationCall(TRUE, UserContent(request), ServerConfig(request), Len(events)))
    /\ \/ /\ pc' = "srv_streaming"
          /\ html_content' = <<>>
          /\ UNCHANGED <<events, serverVars>>
       \/ \E exc \in Exceptions :
          /\ InnerHandler(exc, events)
          /\ UNCHANGED html_content
    /\ UNCHANGED <<envVars, endpoint, body, client_ops, stream_result, request, response, delivered, truncated_content, chunk_buffer,
                   has_sent_content, edgeVars>>

\* one iteration of "for chunk in stream"
MessageChunk ==
    /\ endpoint = "server"
    /\ pc = "srv_streaming"
    /\ Len(delivered) < MaxServerChunks
    /\ \E chunk \in ServerChunks :
         /\ delivered' = Append(delivered, chunk)
         /\ IF chunk.type = "message_delta"
            THEN /\ html_content' = html_content \o chunk.text
                 /\ events' = Append(events, ServerEvent("content", chunk.text, ""))
            ELSE IF chunk.type \in {"thinking_start", "thinking_update", "thinking_end"}
            THEN /\ events' = Append(events, ServerEvent(chunk.type, chunk.text, ""))
                 /\ UNCHANGED html_content
            ELSE UNCHANGED <<events, html_content>>
    /\ UNCHANGED <<envVars, endpoint, body, client_ops, stream_result, pc, request, response, calls, truncated_content, chunk_buffer,
                   has_sent_content, edgeVars, serverVars>>

\* the iteration of the stream raises
MessageStreamRaises ==
    /\ endpoint = "server"
    /\ pc = "srv_streaming"
    /\ UNCHANGED <<envVars, endpoint, body, client_ops, stream_result, request, response, calls, delivered, streamVars, edgeVars>>
    /\ \E exc \in Exceptions : InnerHandler(exc, events)

\* the stream is exhausted: the usage and the completion message, then break
MessageStreamExhausted ==
    /\ endpoint = "server"
    /\ pc = "srv_streaming"
    /\ \E reported \in {0, 7} :
         LET output_tokens == IF reported # 0 THEN reported ELSE (WordCount(html_content) * 13) \div 10
         IN events' = Append(events, WithUsage(ServerEvent("complete", <<>>, ""), output_tokens))
    /\ pc' = "done"
    /\ UNCHANGED <<envVars, endpoint, body, client_ops, stream_result, request, response, calls, delivered, streamVars, edgeVars, serverVars>>

\* response = client.messages.create(...), its content and the completion
\* message, then break; an exception goes to the outer handler
CreateMessage ==
    /\ endpoint = "server"
    /\ pc = "srv_create"
    /\ calls' = Append(calls, GenerationCall(FALSE, UserContent(request), ServerConfig(request), Len(events)))
    /\ \/ \E text \in ServerResponses, reported \in {0, 7} :
            LET output_tokens == IF reported # 0 THEN reported ELSE (WordCount(text) * 13) \div 10
            IN
            /\ html_content' = text
            /\ events' = events \o <<ServerEvent("content", text, ""),
                                     WithUsage(ServerEvent("complete", <<>>, ""), output_tokens)>>
            /\ pc' = "done"
            /\ UNCHANGED serverVars
       \/ \E exc \in Exceptions :
            /\ RetryHandler(exc, events)
            /\ UNCHANGED html_content
    /\ UNCHANGED <<envVars, endpoint, body, client_ops, stream_result, request, response, delivered, truncated_content, chunk_buffer,
                   has_sent_content, edgeVars>>

ServerNext ==
    \/ ProcessFile
    \/ OpenMessageStream
    \/ MessageChunk
    \/ MessageStreamRaises
    \/ MessageStreamExhausted
    \/ CreateMessage

----------------------------------------------------------------------------
(* The endpoints that answer with one JSON body *)

\* what a non-streaming generate_content call does: it returns a response,
\* raises DeadlineExceeded, or raises another exception
Outcomes == {"returns", "DeadlineExceeded", "raises"}

\* text, else the texts of the parts; reading text may raise
ExtractText(resp) ==
    IF resp.shape = "text" THEN resp.text
    ELSE IF resp.shape = "parts" THEN Join(resp.parts)
    ELSE <<>>

\* the endpoints that read the response inside a try of its own, so that an
\* exception raised by the reading leaves html_content empty
ExtractionGuarded(ep) == ep \in {"process_gemini", "file_visualization/process-gemini"}

----------------------------------------------------------------------------
(* Reading the text of a non-streaming response *)

\* A response object as the accessors describe it.  resolve: absent when the
\* object has no resolve method, else the text of the resolved object.  text:
\* absent when it has no text attribute, else its value.  parts and
\* candidates: absent, an empty collection, or a collection of one part (for
\* candidates: one candidate whose content has one part) with its text.
\* repr is what str(response) gives.
Accessor(present, value) == [present |-> present, value |-> value]

Absent == Accessor(FALSE, <<>>)

TextValues(label) == {Absent, Accessor(TRUE, <<>>), Accessor(TRUE, <<label>>)}

PartValues(label) ==
    {Absent, Accessor(TRUE, <<>>), Accessor(TRUE, <<<<>>>>),
     Accessor(TRUE, <<<<label>>>>)}

Responses ==
    [resolve : TextValues("resolved"), text : TextValues("text"), parts : PartValues("part"),
     candidates : PartValues("candidate"), repr : {<<"<genai.">>, <<"repr">>}]

\* api/process-gemini.py: text when the attribute is there, else the parts
ProcessGeminiExtract(r) ==
    IF r.text.present THEN r.text.value
    ELSE IF r.parts.present /\ r.parts.value # <<>> THEN Join(r.parts.value)
    ELSE <<>>

\* process_gemini.py: the first accessor that is there (and, for a
\* collection, not empty) is read, and no other one; str(response) when none
\* is there
HandlerExtract(r) ==
    IF r.text.present THEN r.text.value
    ELSE IF r.parts.present /\ r.parts.value # <<>> THEN Join(r.parts.value)
    ELSE IF r.candidates.present /\ r.candidates.value # <<>> THEN Join(r.candidates.value)
    ELSE r.repr

\* file_visualization/api/process-gemini.py: the resolved object when there
\* is a resolve method, else the first accessor that is there, of a collection
\* the first part only; when that gave nothing, str(response) unless it is the
\* representation of the object
FvExtract(r) ==
    LET read == IF r.resolve.present THEN r.resolve.value
                ELSE IF r.text.present THEN r.text.value
                ELSE IF r.parts.present /\ r.parts.value # <<>> THEN Head(r.parts.value)
                ELSE IF r.candidates.present /\ r.candidates.value # <<>>
                THEN Head(r.candidates.value)
                ELSE <<>>
    IN IF read # <<>> THEN read
       ELSE IF Head(r.repr) = "<genai." THEN <<>>
       ELSE r.repr

Extractors == {"api/process-gemini", "process_gemini", "file_visualization/process-gemini"}

\* nothing is being read
NoExtraction == [by |-> "", response |-> <<>>, html_content |-> <<>>]

\* the extraction of one endpoint applied to a response
Extract(by, r) ==
    /\ extraction.by = ""
    /\ extraction.response = r
    /\ extraction' = [by |-> by, response |-> r,
                      html_content |-> CASE by = "api/process-gemini" -> ProcessGeminiExtract(r)
                                         [] by = "process_gemini" -> HandlerExtract(r)
                                         [] by = "file_visualization/process-gemini" -> FvExtract(r)]
    /\ UNCHANGED <<requestVars, proc, client, waited, clock>>

----------------------------------------------------------------------------
(* api/process-gemini.py *)

PG_MAX_OUTPUT_TOKENS == 8192
VERCEL_MAX_OUTPUT_TOKENS == 4096
VERCEL_MAX_CONTENT_LENGTH == 2000
FALLBACK_MAX_OUTPUT_TOKENS == 1024
FALLBACK_TEMPERATURE == 7
ERROR_PREVIEW_LENGTH == 300

\* truncated_content = content[:max_content_length] (+ "\n\n" + format_prompt)
ProcessGeminiPrompt(req, vercel) ==
    LET cut == Prefix(req.content,
                      IF vercel THEN VERCEL_MAX_CONTENT_LENGTH ELSE max_content_length)
    IN IF req.format_prompt # <<>> THEN cut \o <<" ">> \o req.format_prompt ELSE cut

\* edge_config on Vercel, generation_config elsewhere
ProcessGeminiConfig(vercel) ==
    [max_output_tokens |-> IF vercel THEN VERCEL_MAX_OUTPUT_TOKENS ELSE PG_MAX_OUTPUT_TOKENS,
     temperature |-> GEMINI_TEMPERATURE]

\* fallback_config
ReducedConfig ==
    [max_output_tokens |-> FALLBACK_MAX_OUTPUT_TOKENS, temperature |-> FALLBACK_TEMPERATURE]

\* the simplified prompt built from the whole content
ReducedPromptWhole(content) == <<"Create a simple HTML page">> \o content

\* simplified_contents
ReducedPrompt(content) == <<"Create a simple HTML page">> \o Prefix(content, PREVIEW_LENGTH)

\* the document of the except Exception branch
ErrorHtml(content) == <<"PLACEHOLDER", " ">> \o Prefix(content, ERROR_PREVIEW_LENGTH) \o <<" ", "Error">>

\* the document of the outermost except branch: no part of the request in it
ServerErrorHtml == <<"PLACEHOLDER", " ", "Server Error">>

\* process_request up to the return of the main generation call
ProcessGeminiRequest ==
    /\ endpoint = "process-gemini"
    /\ pc = "request"
    /\ \E available \in BOOLEAN, clientOk \in BOOLEAN, modelOk \in BOOLEAN, vercel \in BOOLEAN,
          outcome \in Outcomes, resp \in Chunks :
         LET contents == ProcessGeminiPrompt(request, vercel) IN
         IF request.api_key = <<>> \/ request.content = <<>> \/ "content" \notin request.present
         THEN /\ response' = 400
              /\ body' = ErrorBody("API key and content are required")
              /\ pc' = "done"
              /\ UNCHANGED <<client_ops, calls, truncated_content, delivered, html_content,
                             stream_result>>
         ELSE IF ~available
         THEN /\ response' = 500
              /\ body' = ErrorBody("package is not installed")
              /\ pc' = "done"
              /\ UNCHANGED <<client_ops, calls, truncated_content, delivered, html_content,
                             stream_result>>
         ELSE IF ~clientOk \/ ~modelOk
         THEN /\ response' = 200
              /\ body' = WithDetails(Body(ServerErrorHtml, "", "", "Server error"))
              /\ client_ops' = IF clientOk THEN <<"create_gemini_client", "get_model">>
                               ELSE <<"create_gemini_client">>
              /\ pc' = "done"
              /\ UNCHANGED <<calls, truncated_content, delivered, html_content, stream_result>>
         ELSE /\ client_ops' = <<"create_gemini_client", "get_model">>
              /\ truncated_content' = contents
              /\ calls' = <<GenerationCall(FALSE, contents, ProcessGeminiConfig(vercel), 0)>>
              /\ stream_result' = outcome
              /\ delivered' = IF outcome = "returns" THEN <<resp>> ELSE <<>>
              /\ html_content' = IF outcome = "returns" THEN ExtractText(resp) ELSE <<>>
              /\ response' = IF outcome = "DeadlineExceeded" THEN 0 ELSE 200
              /\ pc' = IF outcome = "DeadlineExceeded" THEN "deadline" ELSE "done"
              /\ body' = IF outcome = "DeadlineExceeded" THEN NoBody
                         ELSE IF outcome = "raises" \/ resp.shape = "raises"
                         THEN WithDetails(Body(ErrorHtml(contents), "", "", "Server error"))
                         ELSE Body(ExtractText(resp), "GEMINI_MODEL", "", "")
    /\ UNCHANGED <<envVars, endpoint, request, events,
                   chunk_buffer, has_sent_content, edgeVars, serverVars>>

\* except DeadlineExceeded: the call with minimal parameters, then the
\* static placeholder when it gave nothing
ProcessGeminiDeadline ==
    /\ endpoint = "process-gemini"
    /\ pc = "deadline"
    /\ calls' = Append(calls, GenerationCall(FALSE, ReducedPrompt(truncated_content), ReducedConfig, 0))
    /\ \E raised \in BOOLEAN, resp \in Chunks :
         LET fallback_html == IF raised \/ resp.shape = "raises" THEN <<>> ELSE ExtractText(resp) IN
         /\ delivered' = IF raised THEN <<>> ELSE <<resp>>
         /\ html_content' = fallback_html
         /\ body' = IF fallback_html # <<>>
                    THEN Body(fallback_html, "GEMINI_MODEL",
                              "Generated with reduced parameters due to timeout", "")
                    ELSE Body(FallbackHtml("timed out", truncated_content), "fallback", "",
                              "The Gemini API request took too long to complete")
    /\ response' = 200
    /\ pc' = "done"
    /\ UNCHANGED <<envVars, endpoint, request, events, stream_result, client_ops, truncated_content,
                   chunk_buffer, has_sent_content, edgeVars, serverVars>>

ProcessGeminiNext ==
    \/ ProcessGeminiRequest
    \/ ProcessGeminiDeadline

----------------------------------------------------------------------------
(* api/gemini-edge.py *)

\* the endpoint without the test of the extracted text
GeminiEdgeEndpointUnchecked ==
    /\ endpoint = "gemini-edge"
    /\ pc = "request"
    /\ \E available \in BOOLEAN, clientOk \in BOOLEAN, outcome \in Outcomes, resp \in Chunks,
          mentionsKey \in BOOLEAN :
         IF ~EdgeValid(request)
         THEN /\ response' = 500
              /\ body' = ErrorBody("Server error")
              /\ UNCHANGED <<client_ops, calls, prompt, delivered, html_content>>
         ELSE IF ~available
         THEN /\ response' = 500
              /\ body' = ErrorBody("package is not installed")
              /\ UNCHANGED <<client_ops, calls, prompt, delivered, html_content>>
         ELSE IF ~clientOk
         THEN /\ response' = 400
              /\ body' = ErrorBody("Failed to create Gemini client. Check your API key")
              /\ client_ops' = <<"genai.configure">>
              /\ UNCHANGED <<calls, prompt, delivered, html_content>>
         ELSE /\ client_ops' = <<"genai.configure", "GenerativeModel">>
              /\ prompt' = EdgePrompt(request)
              /\ delivered' = IF outcome = "returns" THEN <<resp>> ELSE <<>>
              /\ html_content' = IF outcome = "returns" THEN ExtractText(resp) ELSE <<>>
              /\ calls' = <<GenerationCall(FALSE, EdgePrompt(request), EdgeConfig(request), 0)>>
              /\ IF outcome # "returns" \/ resp.shape = "raises"
                 THEN /\ response' = IF mentionsKey THEN 400 ELSE 500
                      /\ body' = ErrorBody("Generation failed")
                 ELSE /\ response' = 200
                      /\ body' = Body(ExtractText(resp), "", "", "")
    /\ pc' = "done"
    /\ UNCHANGED <<envVars, endpoint, request, events, stream_result, truncated_content, chunk_buffer,
                   has_sent_content,
                   accumulated_content, chunks_received, serverVars>>

\* gemini_endpoint and process_request; a result with an error is answered
\* with 400 when the error text contains "API key", else with 500
GeminiEdgeEndpoint ==
    /\ endpoint = "gemini-edge"
    /\ pc = "request"
    /\ \E available \in BOOLEAN, clientOk \in BOOLEAN, outcome \in Outcomes, resp \in Chunks,
          mentionsKey \in BOOLEAN :
         IF ~EdgeValid(request)
         THEN /\ response' = 500
              /\ body' = ErrorBody("Server error")
              /\ UNCHANGED <<client_ops, calls, prompt, delivered, html_content>>
         ELSE IF ~available
         THEN /\ response' = 500
              /\ body' = ErrorBody("package is not installed")
              /\ UNCHANGED <<client_ops, calls, prompt, delivered, html_content>>
         ELSE IF ~clientOk
         THEN /\ response' = 400
              /\ body' = ErrorBody("Failed to create Gemini client. Check your API key")
              /\ client_ops' = <<"genai.configure">>
              /\ UNCHANGED <<calls, prompt, delivered, html_content>>
         ELSE /\ client_ops' = <<"genai.configure", "GenerativeModel">>
              /\ prompt' = EdgePrompt(request)
              /\ delivered' = IF outcome = "returns" THEN <<resp>> ELSE <<>>
              /\ html_content' = IF outcome = "returns" THEN ExtractText(resp) ELSE <<>>
              /\ calls' = <<GenerationCall(FALSE, EdgePrompt(request), EdgeConfig(request), 0)>>
              /\ IF outcome # "returns" \/ resp.shape = "raises"
                 THEN /\ response' = IF mentionsKey THEN 400 ELSE 500
                      /\ body' = ErrorBody("Generation failed")
                 ELSE IF ExtractText(resp) = <<>>
                 THEN /\ response' = 500
                      /\ body' = ErrorBody("No content generated")
                 ELSE /\ response' = 200
                      /\ body' = Body(ExtractText(resp), "", "", "")
    /\ pc' = "done"
    /\ UNCHANGED <<envVars, endpoint, request, events, stream_result, truncated_content, chunk_buffer,
                   has_sent_content,
                   accumulated_content, chunks_received, serverVars>>

----------------------------------------------------------------------------
(* process_gemini.py *)

HANDLER_MAX_OUTPUT_TOKENS == 128000

\* content = data.get('content', '') or data.get('source', '')
HandlerContent(req) == IF req.content # <<>> THEN req.content ELSE req.source

\* the system instruction, then user_content[:100000]
HandlerPrompt(req) ==
    LET user_content == IF req.format_prompt # <<>>
                        THEN HandlerContent(req) \o <<" ">> \o req.format_prompt
                        ELSE HandlerContent(req)
    IN <<"SYSTEM_INSTRUCTION", " ">> \o Prefix(user_content, max_content_length)

HandlerConfig(req) ==
    [max_output_tokens |-> IF req.max_tokens # 0 THEN req.max_tokens ELSE HANDLER_MAX_OUTPUT_TOKENS,
     temperature |-> GEMINI_TEMPERATURE]

\* handler(request): the api_key is read and never tested; genai.configure
\* receives it as it is, and api_key[:4] raises when it is None
ProcessGeminiHandler ==
    /\ endpoint = "process_gemini"
    /\ pc = "request"
    /\ \E available \in BOOLEAN, clientOk \in BOOLEAN, outcome \in Outcomes, resp \in Chunks,
          resolved \in {<<>>, <<"a">>} :
         LET html == IF resp.shape = "raises" THEN resolved ELSE ExtractText(resp) IN
         IF HandlerContent(request) = <<>>
         THEN /\ response' = 400
              /\ body' = ErrorBody("Source code or text is required")
              /\ UNCHANGED <<client_ops, calls, prompt, delivered, html_content>>
         ELSE IF ~available
         THEN /\ response' = 500
              /\ body' = ErrorBody("package is not installed")
              /\ UNCHANGED <<client_ops, calls, prompt, delivered, html_content>>
         ELSE IF "api_key" \notin request.present \/ ~clientOk
         THEN /\ response' = 400
              /\ body' = ErrorBody("API key validation failed")
              /\ client_ops' = <<"genai.configure">>
              /\ UNCHANGED <<calls, prompt, delivered, html_content>>
         ELSE /\ client_ops' = <<"genai.configure", "GenerativeModel">>
              /\ prompt' = HandlerPrompt(request)
              /\ delivered' = IF outcome = "returns" THEN <<resp>> ELSE <<>>
              /\ html_content' = IF outcome = "returns" THEN html ELSE <<>>
              /\ calls' = <<GenerationCall(FALSE, HandlerPrompt(request), HandlerConfig(request), 0)>>
              /\ IF outcome # "returns"
                 THEN /\ response' = 500
                      /\ body' = WithDetails(ErrorBody("Generation error"))
                 ELSE IF html = <<>>
                 THEN /\ response' = 500
                      /\ body' = WithDetails(ErrorBody("Generation error: Could not extract content"))
                 ELSE /\ response' = 200
                      /\ body' = Body(html, "GEMINI_MODEL", "", "")
    /\ pc' = "done"
    /\ UNCHANGED <<envVars, endpoint, request, events, stream_result, truncated_content, chunk_buffer,
                   has_sent_content,
                   accumulated_content, chunks_received, serverVars>>

----------------------------------------------------------------------------
(* file_visualization/api/process-gemini.py *)

\* if not content and source: content = source
FvContent(req) == IF req.content # <<>> THEN req.content ELSE req.source

\* the system instruction, then user_content as it is
FvPrompt(req) ==
    <<"SYSTEM_INSTRUCTION", " ">> \o
    (IF req.format_prompt # <<>> THEN FvContent(req) \o <<" ">> \o req.format_prompt
     ELSE FvContent(req))

FvConfig(req) ==
    [max_output_tokens |-> IF req.max_tokens # 0 THEN req.max_tokens ELSE GEMINI_MAX_OUTPUT_TOKENS,
     temperature |-> GEMINI_TEMPERATURE]

\* the first part only is read from a parts collection
FvExtractText(resp) ==
    IF resp.shape = "text" THEN resp.text
    ELSE IF resp.shape = "parts" THEN Head(resp.parts)
    ELSE <<>>

\* every failure of the generation call answered as a gateway timeout
FvFailureStatusTimeout(outcome) == 504

\* except DeadlineExceeded: 504; except Exception: 500
FvFailureStatus(outcome) == IF outcome = "DeadlineExceeded" THEN 504 ELSE 500

\* process_request; when nothing was extracted, str(response) is taken unless
\* it starts with "<genai."
FvProcessRequest ==
    /\ endpoint = "file_visualization/process-gemini"
    /\ pc = "request"
    /\ \E available \in BOOLEAN, clientOk \in BOOLEAN, modelOk \in BOOLEAN, outcome \in Outcomes,
          resp \in Chunks, repr \in {<<>>, <<"response:">>} :
         LET html == IF FvExtractText(resp) # <<>> THEN FvExtractText(resp) ELSE repr IN
         IF request.api_key = <<>> \/ FvContent(request) = <<>>
         THEN /\ response' = 400
              /\ body' = ErrorBody("API key and content are required")
              /\ UNCHANGED <<client_ops, calls, prompt, delivered, html_content, stream_result>>
         ELSE IF ~available
         THEN /\ response' = 500
              /\ body' = ErrorBody("package is not installed")
              /\ UNCHANGED <<client_ops, calls, prompt, delivered, html_content, stream_result>>
         ELSE IF ~clientOk \/ ~modelOk
         THEN /\ response' = 500
              /\ body' = WithDetails(ErrorBody("Unexpected error"))
              /\ client_ops' = IF clientOk THEN <<"create_gemini_client", "get_model">>
                               ELSE <<"create_gemini_client">>
              /\ UNCHANGED <<calls, prompt, delivered, html_content, stream_result>>
         ELSE /\ client_ops' = <<"create_gemini_client", "get_model">>
              /\ prompt' = FvPrompt(request)
              /\ delivered' = IF outcome = "returns" THEN <<resp>> ELSE <<>>
              /\ html_content' = IF outcome = "returns" THEN html ELSE <<>>
              /\ calls' = <<GenerationCall(FALSE, FvPrompt(request), FvConfig(request), 0)>>
              /\ stream_result' = outcome
              /\ IF outcome # "returns"
                 THEN /\ response' = FvFailureStatus(outcome)
                      /\ body' = WithDetails(ErrorBody(IF outcome = "DeadlineExceeded"
                                                       THEN "Deadline exceeded" ELSE "Error"))
                 ELSE IF html = <<>>
                 THEN /\ response' = 500
                      /\ body' = ErrorBody("Failed to extract content from Gemini response")
                 ELSE /\ response' = 200
                      /\ body' = Body(html, "GEMINI_MODEL", "", "")
    /\ pc' = "done"
    /\ UNCHANGED <<envVars, endpoint, request, events, truncated_content, chunk_buffer,
                   has_sent_content,
                   accumulated_content, chunks_received, serverVars>>

----------------------------------------------------------------------------
(* process_gemini_stream.py and file_visualization/process_gemini_stream.py *)

HelperEndpoints == {"process_gemini_stream", "file_visualization/process_gemini_stream"}

\* class GeminiStreamingResponse of helper_function.py: the parameters of
\* __init__ besides self, none of which has a default, and the methods the
\* class defines
StreamingResponseParameters == {"response_stream"}
StreamingResponseMethods == {"__init__", "__iter__", "__next__"}

\* GeminiStreamingResponse(**keywords): a call without positional arguments
\* binds when every parameter is given and every keyword is a parameter;
\* else it raises TypeError
ConstructorAccepts(keywords) == keywords = StreamingResponseParameters

\* the keyword arguments the handler constructs GeminiStreamingResponse with
HandlerKeywords(ep) ==
    IF ep = "process_gemini_stream"
    THEN {"model", "prompt", "generation_config", "request_id", "start_time"}
    ELSE {"stream_response", "session_id"}

\* the method the handler calls on the object it has constructed
HandlerMethod == "stream_response"

\* the system instruction, content[:100000], then the format prompt
HelperPrompt(req) ==
    <<"SYSTEM_INSTRUCTION", " ">> \o Prefix(HandlerContent(req), max_content_length)
        \o (IF req.format_prompt # <<>> THEN <<" ">> \o req.format_prompt ELSE <<>>)

\* generation_config of handler
HelperConfig(ep, req) ==
    [max_output_tokens |-> IF req.max_tokens # 0 THEN req.max_tokens
                           ELSE IF ep = "process_gemini_stream" THEN HANDLER_MAX_OUTPUT_TOKENS
                           ELSE GEMINI_MAX_OUTPUT_TOKENS,
     temperature |-> GEMINI_TEMPERATURE]

\* handler(request) up to genai.configure: the api_key is read and never
\* tested, and api_key[:4] raises when it is None
HelperHandler ==
    /\ endpoint \in HelperEndpoints
    /\ pc = "request"
    /\ \E available \in BOOLEAN, clientOk \in BOOLEAN :
         IF HandlerContent(request) = <<>>
         THEN /\ response' = 400
              /\ body' = ErrorBody("Source code or text is required")
              /\ pc' = "done"
              /\ UNCHANGED <<client_ops, prompt>>
         ELSE IF ~available
         THEN /\ response' = 500
              /\ body' = ErrorBody("package is not installed")
              /\ pc' = "done"
              /\ UNCHANGED <<client_ops, prompt>>
         ELSE IF "api_key" \notin request.present \/ ~clientOk
         THEN /\ response' = 400
              /\ body' = ErrorBody("API key validation failed")
              /\ client_ops' = <<"genai.configure">>
              /\ pc' = "done"
              /\ UNCHANGED prompt
         ELSE /\ client_ops' = <<"genai.configure">>
              /\ prompt' = HelperPrompt(request)
              /\ pc' = "helper_model"
              /\ UNCHANGED <<response, body>>
    /\ UNCHANGED <<envVars, endpoint, request, events, calls, delivered, stream_result, streamVars,
                   accumulated_content, chunks_received, serverVars>>

\* model = genai.GenerativeModel(GEMINI_MODEL), outside the inner try: when
\* it raises, the outer handler answers
HelperModel ==
    /\ endpoint \in HelperEndpoints
    /\ pc = "helper_model"
    /\ client_ops' = Append(client_ops, "GenerativeModel")
    /\ \E ok \in BOOLEAN :
         IF ok
         THEN /\ pc' = IF endpoint = "process_gemini_stream" THEN "helper_respond" ELSE "helper_open"
              /\ UNCHANGED <<response, body>>
         ELSE /\ response' = 500
              /\ body' = WithDetails(ErrorBody("Server error"))
              /\ pc' = "done"
    /\ UNCHANGED <<envVars, endpoint, request, events, calls, delivered, stream_result, streamVars,
                   edgeVars, serverVars>>

\* file_visualization/process_gemini_stream.py:
\* stream_response = model.generate_content(full_prompt, generation_config, stream=True)
HelperOpenStream ==
    /\ endpoint = "file_visualization/process_gemini_stream"
    /\ pc = "helper_open"
    /\ calls' = Append(calls, GenerationCall(TRUE, prompt, HelperConfig(endpoint, request), Len(events)))
    /\ \E ok \in BOOLEAN :
         IF ok
         THEN /\ pc' = "helper_respond"
              /\ stream_result' = "opened"
              /\ UNCHANGED <<response, body>>
         ELSE /\ response' = 500
              /\ body' = WithDetails(ErrorBody("Generation error"))
              /\ stream_result' = "raised"
              /\ pc' = "done"
    /\ UNCHANGED <<envVars, endpoint, request, events, client_ops, delivered, streamVars,
                   edgeVars, serverVars>>

\* return GeminiStreamingResponse(...).stream_response(): the TypeError of the
\* construction and the AttributeError of the call of a method the class does
\* not define are caught by "except Exception as generation_error"
HelperRespond ==
    /\ endpoint \in HelperEndpoints
    /\ pc = "helper_respond"
    /\ client_ops' = Append(client_ops, "GeminiStreamingResponse")
    /\ IF ~ConstructorAccepts(HandlerKeywords(endpoint))
       THEN /\ response' = 500
            /\ body' = WithDetails(ErrorBody("Generation error: TypeError"))
       ELSE IF HandlerMethod \notin StreamingResponseMethods
       THEN /\ response' = 500
            /\ body' = WithDetails(ErrorBody("Generation error: AttributeError"))
       ELSE /\ response' = 200
            /\ body' = NoBody
    /\ pc' = "done"
    /\ UNCHANGED <<envVars, endpoint, request, events, calls, delivered, stream_result, streamVars,
                   edgeVars, serverVars>>

HelperNext ==
    \/ HelperHandler
    \/ HelperModel
    \/ HelperOpenStream
    \/ HelperRespond

----------------------------------------------------------------------------

\* the state of a handler that has received a request and done nothing yet
Fresh ==
    /\ pc = "request"
    /\ response = 0
    /\ events = <<>>
    /\ calls = <<>>
    /\ delivered = <<>>
    /\ stream_result = "pending"
    /\ failures = <<>>
    /\ body = NoBody
    /\ client_ops = <<>>
    /\ truncated_content = <<>>
    /\ html_content = <<>>
    /\ chunk_buffer = <<>>
    /\ has_sent_content = FALSE
    /\ prompt = <<>>
    /\ accumulated_content = <<>>
    /\ chunks_received = 0
    /\ retry_attempt = 0
    /\ sleeps = <<>>

----------------------------------------------------------------------------
(* Two requests handled concurrently by one process *)

\* genai.configure(api_key=...) writes a setting of the module genai, which
\* every request the process handles shares.  A request is handled by a
\* thread of its own under Flask (process_gemini.py, and the endpoints that
\* call create_gemini_client of helper_function.py); the coroutine
\* process_stream_request of gemini-stream-edge.py has no await in it and
\* runs from its first to its last statement without another one in between.

ConcurrentEndpoints == {"process_gemini", "process-gemini-stream", "gemini-stream-edge"}

Threads == {1, 2}

\* the api_key the request of a thread carries
KeyOf(t) == IF t = 1 THEN "key1" ELSE "key2"

\* a request in progress: at is its position, acquired the key in effect when
\* its model was acquired, generated the key in effect for its generation call
\* ("" before that)
Thread(at, acquired, generated) == [at |-> at, acquired |-> acquired, generated |-> generated]

\* outside a concurrent execution: no key installed, no request in progress
NoProcess == [api_key |-> "", threads |-> [t \in Threads |-> Thread("idle", "", "")]]

\* genai.configure(api_key=api_key), in handler and in create_gemini_client
Configure(t) ==
    /\ endpoint \in {"process_gemini", "process-gemini-stream"}
    /\ proc.threads[t].at = "received"
    /\ proc' = [proc EXCEPT !.api_key = KeyOf(t), !.threads[t].at = "configured"]
    /\ UNCHANGED <<requestVars, client, waited, extraction, clock>>

\* genai.GenerativeModel(GEMINI_MODEL); get_model of the client wrapper also
\* calls model.count_tokens("Test"), an upstream call of its own.  When it
\* raises, the request is answered with an error
AcquireModel(t) ==
    /\ endpoint \in {"process_gemini", "process-gemini-stream"}
    /\ proc.threads[t].at = "configured"
    /\ \E ok \in BOOLEAN :
         proc' = [proc EXCEPT !.threads[t].at = IF ok THEN "model" ELSE "rejected",
                              !.threads[t].acquired = proc.api_key]
    /\ UNCHANGED <<requestVars, client, waited, extraction, clock>>

\* model.generate_content(...): the model object uses the connection it made
\* at its first upstream call, with the key installed then.  After get_model
\* that is the connection of count_tokens; a model that made no call yet
\* either has bound the key at its construction or reads it now
GenerateContent(t) ==
    /\ endpoint \in {"process_gemini", "process-gemini-stream"}
    /\ proc.threads[t].at = "model"
    /\ \E reads_now \in BOOLEAN :
         LET key == IF endpoint = "process_gemini" /\ reads_now
                    THEN proc.api_key
                    ELSE proc.threads[t].acquired
         IN proc' = [proc EXCEPT !.threads[t].at = "generated", !.threads[t].generated = key]
    /\ UNCHANGED <<requestVars, client, waited, extraction, clock>>

\* process_stream_request of gemini-stream-edge.py: genai.configure, the
\* model and the whole generation, in one step of the event loop
EdgeCoroutine(t) ==
    /\ endpoint = "gemini-stream-edge"
    /\ proc.threads[t].at = "received"
    /\ proc' = [proc EXCEPT !.api_key = KeyOf(t),
                            !.threads[t] = Thread("generated", KeyOf(t), KeyOf(t))]
    /\ UNCHANGED <<requestVars, client, waited, extraction, clock>>

\* both requests have arrived; the key a previous request installed, if any,
\* is still in place
ConcurrentInit ==
    /\ endpoint \in ConcurrentEndpoints
    /\ request = BaseRequest
    /\ Fresh
    /\ \E installed \in {"", "key0"} :
         proc = [api_key |-> installed, threads |-> [t \in Threads |-> Thread("received", "", "")]]
    /\ client = Connected
    /\ waited = NoWait
    /\ clock = NoClock
    /\ extraction = NoExtraction

ConcurrentNext ==
    \E t \in Threads :
        \/ Configure(t)
        \/ AcquireModel(t)
        \/ GenerateContent(t)
        \/ EdgeCoroutine(t)

ConcurrentSpec == ConcurrentInit /\ [][ConcurrentNext]_vars

----------------------------------------------------------------------------

Init ==
    /\ endpoint \in Endpoints
    /\ request \in Requests(endpoint)
    /\ Fresh
    /\ proc = NoProcess
    /\ client = Connected
    /\ waited = NoWait
    /\ clock = NoClock
    /\ extraction = NoExtraction

Next ==
    \/ StreamNext
    \/ EdgeNext
    \/ ServerNext
    \/ ProcessGeminiNext
    \/ GeminiEdgeEndpoint
    \/ ProcessGeminiHandler
    \/ FvProcessRequest

Spec == Init /\ [][Next]_vars

----------------------------------------------------------------------------
(* The extractions applied to every response shape *)

ExtractInit ==
    /\ endpoint = "process_gemini"
    /\ request = BaseRequest
    /\ Fresh
    /\ proc = NoProcess
    /\ client = Connected
    /\ waited = NoWait
    /\ clock = NoClock
    /\ \E r \in Responses : extraction = [by |-> "", response |-> r, html_content |-> <<>>]

ExtractNext == \E by \in Extractors, r \in Responses : Extract(by, r)

ExtractSpec == ExtractInit /\ [][ExtractNext]_vars

----------------------------------------------------------------------------
(* A caller that goes away while its stream is in progress *)

\* the caller closes the connection: nothing in the handlers runs at that
\* moment.  Handler.do_POST and the Flask route learn of it when a write
\* fails; gemini_stream_endpoint streams nothing, it returns the list of
\* events when process_stream_request has finished, and never tests the
\* connection
Disconnect ==
    /\ endpoint \in {"process-gemini-stream", "gemini-stream-edge"}
    /\ response = 200
    /\ pc # "done"
    /\ client.connected
    /\ client' = [connected |-> FALSE, chunks |-> Len(delivered), events |-> Len(events)]
    /\ UNCHANGED <<requestVars, proc, waited, extraction, clock>>

DisconnectInit == Init /\ endpoint \in {"process-gemini-stream", "gemini-stream-edge"}

DisconnectNext ==
    \/ StreamNext
    \/ EdgeNext
    \/ Disconnect

DisconnectSpec == DisconnectInit /\ [][DisconnectNext]_vars

----------------------------------------------------------------------------
(* A stream whose upstream is slow *)

\* a keepalive interval passes while the handler waits for the next chunk in
\* "for chunk in stream": no statement of the handler runs meanwhile
IntervalElapses ==
    /\ pc \in {"streaming", "edge_streaming"}
    /\ Idle < MaxIdle
    /\ waited' = [intervals |-> Idle + 1, events |-> Len(events)]
    /\ UNCHANGED <<requestVars, proc, client, extraction, clock>>

TimedInit == Init /\ endpoint \in {"process-gemini-stream", "gemini-stream-edge"}

TimedNext ==
    \/ StreamNext
    \/ EdgeNext
    \/ IntervalElapses

TimedSpec == TimedInit /\ [][TimedNext]_vars

----------------------------------------------------------------------------
(* A stream of many chunks *)

LongInit == Init /\ endpoint = "gemini-stream-edge" /\ request = BaseRequest

LongNext ==
    \/ EdgeEndpoint
    \/ EdgeOpenStream
    \/ EdgeLongChunk
    \/ EdgeRaises
    \/ EdgeExhausted
    \/ EdgeFallback

LongSpec == LongInit /\ [][LongNext]_vars

----------------------------------------------------------------------------
(* The handlers that answer through GeminiStreamingResponse *)

HelperRequests ==
    StreamingRequests \cup
    {[BaseRequest EXCEPT !.present = @ \cup {"format_prompt"}, !.format_prompt = <<"f">>],
     [BaseRequest EXCEPT !.present = @ \cup {"max_tokens"}, !.max_tokens = 1000],
     [BaseRequest EXCEPT !.present = @ \cup {"format_prompt", "max_tokens"},
                          !.format_prompt = <<"f">>, !.max_tokens = 1000],
     [BaseRequest EXCEPT !.content = LongContent]}

HelperInit ==
    /\ endpoint \in HelperEndpoints
    /\ request \in HelperRequests
    /\ Fresh
    /\ proc = NoProcess
    /\ client = Connected
    /\ waited = NoWait
    /\ clock = NoClock
    /\ extraction = NoExtraction

HelperSpec == HelperInit /\ [][HelperNext]_vars

----------------------------------------------------------------------------
(* Properties of the event sequences *)

StreamingEndpoints == {"process-gemini-stream", "gemini-stream-edge"}

\* the request was answered with an event sequence, and the sequence is complete
StreamedSequence == endpoint \in StreamingEndpoints /\ pc = "done" /\ response = 200

Last(s) == s[Len(s)]

\* the text the endpoint reads from a chunk of the primary stream
ReceivedChunkText(chunk) ==
    IF endpoint = "process-gemini-stream" THEN StreamChunkText(chunk) ELSE EdgeChunkText(chunk)

\* the in-order concatenation of the texts of the chunks received
ReceivedText == Join([i \in 1..Len(delivered) |-> ReceivedChunkText(delivered[i])])

IsPlaceholder(e) == e.text # <<>> /\ Head(e.text) = "PLACEHOLDER"

Completions == {i \in 1..Len(events) : IsComplete(events[i])}

\* C1: a streamed event sequence holds exactly one stream_start event, and
\* that event is its first one, whatever the upstream does.
C1_OneStreamStartFirst ==
    StreamedSequence =>
        /\ Len(events) > 0
        /\ IsStreamStart(events[1])
        /\ Count(events, IsStreamStart) = 1

\* C2: a streamed event sequence holds exactly one terminal event, either one
\* message_complete or one error, never both and never neither.
C2_ExactlyOneTerminal ==
    StreamedSequence => Count(events, IsTerminal) = 1

C4_PartialContentPreserved ==
    (StreamedSequence /\ stream_result = "raised" /\ ReceivedText # <<>>) =>
        /\ \E i \in Completions :
              /\ events[i].text = ReceivedText
              /\ events[i].note = "Generation partially complete"
        /\ Len(calls) = 1
        /\ \A i \in 1..Len(events) : ~IsPlaceholder(events[i])

\* C5: when the upstream stream ends without error and at least one chunk is
\* non-empty, exactly one message_complete is sent, its html is the in-order
\* concatenation of all chunk texts and its usage.output_tokens is positive.
C5_CompleteOnExhaustion ==
    (StreamedSequence /\ stream_result = "exhausted" /\ ReceivedText # <<>>) =>
        /\ Cardinality(Completions) = 1
        /\ \A i \in Completions :
              /\ events[i].text = ReceivedText
              /\ events[i].output_tokens > 0

\* a stream of three chunks, two of them non-empty, has ended normally
C5_Witness ==
    /\ StreamedSequence
    /\ stream_result = "exhausted"
    /\ Len(delivered) = 3
    /\ ReceivedText = <<"a", " ">>

----------------------------------------------------------------------------
(* Properties of the retry loop of server.py *)

Terminated == pc \in {"done", "raised"}

\* loop iterations begun: each begins with the call of client.beta.messages.stream
ServerAttempts == Cardinality({i \in 1..Len(calls) : calls[i].stream})

RetryNotices == {i \in 1..Len(events) : IsRetryNotice(events[i])}

\* C6: generate() makes between 1 and max_retries + 1 attempts, a further
\* attempt is made only after a failure classified as overload, and the delay
\* before each retry, ignoring jitter, never decreases over the attempts.
C6_BoundedBackoff ==
    endpoint = "server" =>
        /\ ServerAttempts <= max_retries + 1
        /\ (Terminated /\ response = 200) => ServerAttempts >= 1
        /\ \A n \in 2..ServerAttempts :
              /\ n - 1 <= Len(failures)
              /\ failures[n - 1].class = "overloaded"
              /\ n - 1 <= Len(sleeps)
        /\ \A i \in 1..Len(sleeps) : \A j \in i..Len(sleeps) :
              sleeps[i].backoff <= sleeps[j].backoff

\* all max_retries + 1 attempts were made
C6_Witness ==
    /\ endpoint = "server"
    /\ pc = "done"
    /\ ServerAttempts = max_retries + 1
    /\ Len(sleeps) = max_retries

ServerSucceeded ==
    endpoint = "server" /\ pc = "done" /\ Len(events) > 0 /\ IsServerComplete(Last(events))

\* C7: if the first k attempts fail with an overload error and attempt k + 1
\* succeeds, exactly k retry notices are sent, each one right before the sleep
\* that precedes the next attempt, and all of them before the completion.
C7_RetryNotices ==
    ServerSucceeded =>
        LET k == Len(failures) IN
        /\ ServerAttempts = k + 1
        /\ k <= max_retries
        /\ \A i \in 1..k : failures[i].class = "overloaded"
        /\ Cardinality(RetryNotices) = k
        /\ Len(sleeps) = k
        /\ \A i \in 1..k :
              /\ sleeps[i].after \in RetryNotices
              /\ Cardinality({j \in RetryNotices : j <= sleeps[i].after}) = i
              /\ \A c \in 1..Len(calls) : calls[c].at < sleeps[i].after => c <= failures[i].calls
        /\ \A j \in RetryNotices : j < Len(events)

\* two overloaded attempts, then a successful third
C7_Witness == ServerSucceeded /\ Len(failures) = 2 /\ Len(sleeps) = 2

\* C8: when an attempt fails with an error that is not classified as
\* overload, no further upstream call is made, no info event and no sleep
\* occur, one error event is sent immediately, and the generator ends.
C8_NonOverloadNotRetried ==
    (endpoint = "server" /\ Terminated /\ Len(failures) > 0
        /\ Last(failures).class # "overloaded") =>
        LET f == Last(failures) IN
        /\ Len(calls) = f.calls
        /\ Len(events) = f.events + 1
        /\ IsError(Last(events))
        /\ \A i \in 1..Len(sleeps) : sleeps[i].after <= f.events

\* C9: text accumulated during an attempt that later fails is never
\* discarded: if no attempt succeeds, the content accumulated so far is
\* delivered as the result (a completion), not only an error event.
C9_PartialContentDelivered ==
    (endpoint = "server" /\ Terminated /\ Len(failures) = ServerAttempts
        /\ html_content # <<>>) =>
        \E i \in 1..Len(events) : IsServerComplete(events[i])

----------------------------------------------------------------------------
(* Properties of the fallback cascade *)

\* one non-streaming call with the prompt and parameters of the streaming
\* call was made, before any placeholder and any completion event
FallbackCallMade ==
    /\ Len(calls) = 2
    /\ ~calls[2].stream
    /\ calls[2].prompt = calls[1].prompt
    /\ calls[2].config = calls[1].config
    /\ \A i \in 1..calls[2].at : ~IsPlaceholder(events[i]) /\ ~IsComplete(events[i])

FallbackCallsBefore(i) == {c \in 1..Len(calls) : ~calls[c].stream /\ calls[c].at < i}

\* C11: a streaming endpoint sends an error event only after every step of
\* the fallback cascade has been attempted: the non-streaming retry with the
\* same parameters, the retry with reduced parameters, the retry with a
\* simplified prompt, and the static placeholder.
C11_ErrorOnlyAfterCascade ==
    (endpoint \in StreamingEndpoints /\ Len(calls) >= 1) =>
        \A i \in 1..Len(events) : IsError(events[i]) =>
            /\ \E c \in FallbackCallsBefore(i) :
                  calls[c].prompt = calls[1].prompt /\ calls[c].config = calls[1].config
            /\ \E c \in FallbackCallsBefore(i) :
                  calls[c].config.max_output_tokens < calls[1].config.max_output_tokens
            /\ \E c \in FallbackCallsBefore(i) : calls[c].prompt # calls[1].prompt
            /\ \E j \in 1..(i - 1) : IsPlaceholder(events[j])

\* C12: when the stream raises with an empty accumulator, no error event is
\* sent at that point; an error event is sent only after the fallback call
\* was made and only if no content was obtained.
C12_NoErrorBeforeFallback ==
    (endpoint \in StreamingEndpoints /\ stream_result = "raised" /\ ReceivedText = <<>>) =>
        \A i \in 1..Len(events) : IsError(events[i]) =>
            /\ Len(calls) >= 2
            /\ calls[2].at < i
            /\ \A j \in 1..Len(events) : ~IsComplete(events[j])

----------------------------------------------------------------------------
(* Properties of the responses that carry fallback output *)

\* the request was answered with one JSON body
Answered == endpoint \notin (StreamingEndpoints \cup {"server"}) /\ pc = "done"

IsPlaceholderText(html) == html # <<>> /\ Head(html) = "PLACEHOLDER"

\* C13: every html delivered that the primary generation strategy did not
\* produce (output of a fallback call, or a static placeholder) is marked in
\* the same response body (a warning or an error member) or in the
\* completion event that carries it (a fallback or partial marker).
C13_DegradedOutputMarked ==
    /\ (Answered /\ endpoint = "process-gemini" /\ response = 200
          /\ (Len(calls) = 2 \/ IsPlaceholderText(body.html)))
       => (body.warning # "" \/ body.error # "")
    /\ StreamedSequence =>
          \A i \in Completions :
             (events[i].text # <<>> /\ (Len(calls) = 2 \/ IsPlaceholder(events[i])))
             => events[i].note # ""

\* a response was received and no strategy of the endpoint got text from it
NoTextExtracted ==
    /\ Answered
    /\ Len(delivered) >= 1
    /\ html_content = <<>>
    /\ (ExtractionGuarded(endpoint) \/ Last(delivered).shape # "raises")

----------------------------------------------------------------------------
(* Properties of api/process-gemini.py *)

\* C15: when the main generation call raises DeadlineExceeded, exactly one
\* further generation call is made, with a smaller max_output_tokens, a lower
\* temperature and a prompt built from a truncated prefix of the content; its
\* non-empty text is returned with a warning, otherwise the static placeholder
\* is returned; there is never a third generation call.
C15_DeadlineReducedRetry ==
    endpoint = "process-gemini" =>
        /\ Len(calls) <= 2
        /\ Len(calls) = 2 => stream_result = "DeadlineExceeded"
        /\ (pc = "done" /\ stream_result = "DeadlineExceeded") =>
              /\ Len(calls) = 2
              /\ calls[2].config.max_output_tokens < calls[1].config.max_output_tokens
              /\ calls[2].config.temperature < calls[1].config.temperature
              /\ Len(calls[2].prompt) <= PREVIEW_LENGTH + 1
              /\ Tail(calls[2].prompt) = Prefix(calls[1].prompt, PREVIEW_LENGTH)
              /\ response = 200
              /\ IF html_content # <<>>
                 THEN body.html = html_content /\ body.warning # ""
                 ELSE /\ IsPlaceholderText(body.html)
                      /\ body.warning = ""
                      /\ body.model = "fallback"

\* a content longer than the prefix timed out and the reduced call gave text
C15_Witness ==
    /\ endpoint = "process-gemini"
    /\ pc = "done"
    /\ stream_result = "DeadlineExceeded"
    /\ Len(calls) = 2
    /\ Len(calls[1].prompt) > PREVIEW_LENGTH
    /\ body.warning # ""

\* C16: every request to api/process-gemini.py that passes input validation
\* (non-empty api_key and content, package available: the client constructor
\* is reached) is answered with status 200 and a non-empty html, whatever the
\* upstream does.
C16_AlwaysRenderable ==
    (endpoint = "process-gemini" /\ pc = "done" /\ client_ops # <<>>) =>
        (response = 200 /\ body.html # <<>>)

----------------------------------------------------------------------------
(* Properties of request validation, for every endpoint *)

\* C17: a request whose api_key is missing gets an immediate 400 response
\* (where the package is installed) and no upstream operation is invoked for
\* it: no client construction or configuration, no model call and no
\* generation call.
C17_MissingKeyRejected ==
    "api_key" \notin request.present =>
        /\ client_ops = <<>>
        /\ calls = <<>>
        /\ (pc = "done" /\ body.error # "package is not installed") => response = 400

\* C18: a request in which both content and source are empty or absent is
\* answered with status 400 (where the package is installed), and no upstream
\* call (client construction or generation) is made for it.
C18_EmptyContentRejected ==
    (request.content = <<>> /\ request.source = <<>>) =>
        /\ client_ops = <<>>
        /\ calls = <<>>
        /\ (pc = "done" /\ body.error # "package is not installed") => response = 400

\* the request that carries in content the text this one carries in source
ContentOnly(req) ==
    [req EXCEPT !.present = (@ \ {"source"}) \cup {"content"},
                !.content = IF req.content # <<>> THEN req.content ELSE req.source,
                !.source = <<>>]

\* the prompt the endpoint builds for a request
PromptOf(ep, req) ==
    CASE ep = "process-gemini-stream" -> StreamPrompt(req)
      [] ep = "gemini-stream-edge" -> EdgePrompt(req)
      [] ep = "gemini-edge" -> EdgePrompt(req)
      [] ep = "server" -> UserContent(req)
      [] ep = "process-gemini" -> ProcessGeminiPrompt(req, FALSE)
      [] ep = "process_gemini" -> HandlerPrompt(req)
      [] ep = "file_visualization/process-gemini" -> FvPrompt(req)

\* the request was refused by the validation of its members
RefusedByValidation ==
    /\ pc = "done"
    /\ client_ops = <<>>
    /\ body.error \in {"API key and content are required", "Source code or text is required",
                       "Server error"}

\* C19: a request whose content is absent and whose source is non-empty is
\* accepted and leads to the upstream prompt of the equivalent request that
\* carries the text in content; when both are non-empty, content is used.
C19_SourceAccepted ==
    (request.source # <<>> /\ request.api_key # <<>>) =>
        /\ ~RefusedByValidation
        /\ calls # <<>> => calls[1].prompt = PromptOf(endpoint, ContentOnly(request))

\* the client constructor was invoked and raised
ClientCreationFailed ==
    /\ pc = "done"
    /\ calls = <<>>
    /\ client_ops \in {<<"create_gemini_client">>, <<"genai.configure">>,
                       <<"create_anthropic_client">>}

\* C20: when the client creation rejects the API key, the failure is
\* surfaced immediately as a 400 error response: no generation call, no
\* fallback step, and no fallback html with a success status.
C20_RejectedKeySurfaced ==
    (ClientCreationFailed /\ request.api_key # <<>>) =>
        /\ response = 400
        /\ body.html = <<>>
        /\ events = <<>>

----------------------------------------------------------------------------
(* Properties of concurrent requests *)

\* C21: when two requests with different API keys are handled concurrently
\* by one process, in every interleaving each request acquires its model and
\* makes its generation call under its own API key, never under the key the
\* other request installed.
C21_RequestsIsolated ==
    \A t \in Threads :
        /\ proc.threads[t].acquired \in {"", KeyOf(t)}
        /\ proc.threads[t].generated \in {"", KeyOf(t)}

----------------------------------------------------------------------------
(* Properties of a stream whose caller has gone away *)

\* chunks read, and events produced, that a handler is allowed after the
\* caller went away: process-gemini-stream.py yields, and so writes, at the
\* latest when its buffer holds BUFFER_FLUSH texts
DisconnectSlack == BUFFER_FLUSH

\* C22: once the caller of a streaming endpoint has disconnected, the
\* endpoint reads at most a bounded number of further chunks from the
\* upstream stream and produces no further output for the request beyond
\* that of the step in progress.
C22_DisconnectStopsConsumption ==
    ~client.connected =>
        /\ Len(delivered) <= client.chunks + DisconnectSlack
        /\ Len(events) <= client.events + DisconnectSlack

----------------------------------------------------------------------------
(* Properties of the keepalive events *)

\* C23: while a stream is open, a keepalive event is sent whenever the
\* keepalive interval has passed without any event, whether or not the
\* upstream delivers a chunk meanwhile: a second interval never passes
\* without an event.
C23_KeepaliveCadence ==
    pc \in {"streaming", "edge_streaming"} => Idle <= 1

----------------------------------------------------------------------------
(* Properties of repeated runs *)

\* the events the loop "for chunk in stream" of gemini_stream_generator
\* yields for the chunks when neither of its wall-clock tests fires: no
\* keepalive, and a content event whenever the buffer holds BUFFER_FLUSH texts
RECURSIVE UntimedEvents(_, _)
UntimedEvents(chunks, buffer) ==
    IF chunks = <<>> THEN <<>>
    ELSE LET chunk_text == StreamChunkText(Head(chunks))
             filled == Append(buffer, chunk_text)
         IN IF chunk_text = <<>> THEN UntimedEvents(Tail(chunks), buffer)
            ELSE IF Len(filled) >= BUFFER_FLUSH
            THEN <<StreamEvent("content", "", Join(filled), "")>>
                 \o UntimedEvents(Tail(chunks), <<>>)
            ELSE UntimedEvents(Tail(chunks), filled)

\* the events sent since the primary stream was opened
EventsSinceOpen == SubSeq(events, calls[1].at + 1, Len(events))

\* C24: the event sequence of a streaming run is determined by the request
\* and the behaviour of the upstream: for the same chunks received, the
\* content events (their number, boundaries and payloads) and the keepalive
\* events are the same in every run, whatever the wall clock says; they are
\* those of the run in which no wall-clock test fires.
C24_TimingIndependent ==
    (endpoint = "process-gemini-stream" /\ pc = "streaming") =>
        EventsSinceOpen = UntimedEvents(delivered, <<>>)

----------------------------------------------------------------------------
(* Properties of the extraction of text from a response *)

\* the first non-empty text in the order resolved text, text attribute,
\* parts, candidates; <<>> when no accessor yields text
FirstNonEmpty(r) ==
    IF r.resolve.value # <<>> THEN r.resolve.value
    ELSE IF r.text.value # <<>> THEN r.text.value
    ELSE IF Join(r.parts.value) # <<>> THEN Join(r.parts.value)
    ELSE Join(r.candidates.value)

\* C25: for every response shape, the text extracted from a non-streaming
\* response is the result of the first strategy, in the order resolved text,
\* text attribute, parts, candidates, string conversion, that yields
\* non-empty text; an accessor that is present and yields empty text does not
\* keep a later one from being used.
C25_FirstNonEmptyStrategy ==
    (extraction.by # "" /\ FirstNonEmpty(extraction.response) # <<>>) =>
        extraction.html_content = FirstNonEmpty(extraction.response)

----------------------------------------------------------------------------
(* Properties of the prompt *)

\* the characters an endpoint puts before the user content in its prompt
PromptFrame(ep) ==
    IF ep \in {"gemini-stream-edge", "gemini-edge", "process_gemini",
               "file_visualization/process-gemini"}
    THEN Len(<<"SYSTEM_INSTRUCTION", " ">>)
    ELSE 0

\* the configured maximum of the endpoint that made the call
ContentLimit(call) ==
    IF endpoint = "process-gemini" /\ call.config.max_output_tokens = VERCEL_MAX_OUTPUT_TOKENS
    THEN VERCEL_MAX_CONTENT_LENGTH
    ELSE max_content_length

\* C26: in every endpoint variant that calls Gemini, the user content placed
\* in the prompt of the generation call has at most the configured maximum
\* length (100,000 characters; 2,000 on Vercel in api/process-gemini.py),
\* whatever the length of the input.
C26_PromptContentBounded ==
    (endpoint # "server" /\ request.format_prompt = <<>> /\ Len(calls) >= 1) =>
        Len(calls[1].prompt) - PromptFrame(endpoint) <= ContentLimit(calls[1])

----------------------------------------------------------------------------
(* Properties of file_visualization/api/process-gemini.py *)

\* C27: process_request answers 504 only when the generation call exceeded
\* its deadline, and then no content is returned; every other failure is
\* answered with 400 (a request refused before any upstream operation) or
\* with 500 (an upstream or server failure).
C27_TimeoutOnlyOnDeadline ==
    (endpoint = "file_visualization/process-gemini" /\ pc = "done") =>
        /\ response \in {200, 400, 500, 504}
        /\ response = 504 =>
              /\ stream_result = "DeadlineExceeded"
              /\ Len(calls) = 1
              /\ body.html = <<>>
              /\ body.error # ""
        /\ response = 400 => (client_ops = <<>> /\ calls = <<>>)
        /\ (response # 200 /\ stream_result # "DeadlineExceeded") => response \in {400, 500}
        /\ response = 200 <=> body.html # <<>>

\* the generation call has exceeded its deadline
C27_Witness ==
    /\ endpoint = "file_visualization/process-gemini"
    /\ pc = "done"
    /\ stream_result = "DeadlineExceeded"
    /\ response = 504

----------------------------------------------------------------------------
(* Properties of the error responses *)

\* C28: no response sent to a caller contains a raw exception trace: the
\* JSON body of every response, and every streamed event, carries no
\* traceback text in any of its members.
C28_NoTraceInResponses ==
    /\ body.details # "traceback"
    /\ \A i \in 1..Len(events) : events[i].note # "traceback"

----------------------------------------------------------------------------
(* Properties of the events of server.py *)

IsServerTerminal(e) == IsServerComplete(e) \/ IsError(e)

\* C29: every run of generate() ends with exactly one terminal event, of
\* type complete or error, as the last event sent: every exception of an
\* upstream call leads to a retry or to an error event, whatever its message,
\* and never to the generator ending without a terminal event.
C29_ServerEndsWithTerminal ==
    (endpoint = "server" /\ Terminated /\ response = 200) =>
        /\ Len(events) > 0
        /\ IsServerTerminal(Last(events))
        /\ Count(events, IsServerTerminal) = 1

\* the text of the content events sent, in order
RECURSIVE ContentSent(_)
ContentSent(evs) ==
    IF evs = <<>> THEN <<>>
    ELSE (IF Head(evs).kind = "content" THEN Head(evs).text ELSE <<>>) \o ContentSent(Tail(evs))

\* C30: the concatenation of the content events generate() sends during one
\* request is the text of exactly one complete generation, that of the
\* attempt that succeeded: content sent by an attempt that then fails is
\* never followed by a second copy from a later attempt or from the
\* non-streaming call.
C30_ContentSentOnce ==
    (ServerSucceeded /\ html_content # <<>>) => ContentSent(events) = html_content

----------------------------------------------------------------------------
(* Properties of the content events of gemini_stream_generator *)

\* an event that carries generated text in its "chunk" member
IsContentEvent(e) == e.kind = "content" /\ e.dtype = ""

\* the concatenation of the chunks of the content events among the first n events
ChunksSent(n) ==
    Join([j \in 1..n |-> IF IsContentEvent(events[j]) THEN events[j].text ELSE <<>>])

\* C31: in gemini_stream_generator every non-empty chunk text appended to the
\* accumulator is carried by exactly one content event, in arrival order: when
\* the completion event is emitted, the concatenation of the chunks of the
\* content events sent so far equals the html of the completion, also when the
\* stream raises while chunks are held in the batching buffer.
C31_ChunksCarriedOnce ==
    endpoint = "process-gemini-stream" =>
        \A i \in Completions : ChunksSent(i - 1) = events[i].text

----------------------------------------------------------------------------
(* Properties of the completion events *)

\* C32: no message_complete event carries an empty html, in
\* gemini_stream_generator and in process_stream_request, whatever the
\* upstream does: also when the stream ends normally without a non-empty
\* chunk, and when the non-streaming fallback returns a response without text.
C32_CompletionNeverEmpty ==
    endpoint \in StreamingEndpoints =>
        \A i \in Completions : events[i].text # <<>>

----------------------------------------------------------------------------
(* Properties of the number of upstream calls *)

\* the endpoints whose request makes at most two generation calls
TwoCallEndpoints == {"process-gemini-stream", "gemini-stream-edge", "process-gemini"}

\* the final event of an event stream, or the response of the other endpoints
FinalProduced ==
    IF response = 200 /\ endpoint \in StreamingEndpoints
    THEN Len(events) > 0 /\ IsTerminal(Last(events))
    ELSE IF response = 200 /\ endpoint = "server"
    THEN Len(events) > 0 /\ IsServerTerminal(Last(events))
    ELSE response # 0

\* the numbers of calls are within their bounds
CallsBounded ==
    /\ endpoint \in TwoCallEndpoints => Len(calls) <= 2
    /\ endpoint = "server" => ServerAttempts <= max_retries + 1

\* C33: the number of upstream generation calls of one request is bounded,
\* at most 2 in gemini_stream_generator, in process_stream_request and in
\* process_request of api/process-gemini.py and at most max_retries + 1 = 6
\* attempts in generate() of server.py, and every request finishes once each
\* upstream call has returned or raised: after the last call the final event
\* or the response is always produced.
C33_CallsBoundedAndFinished ==
    /\ CallsBounded
    /\ Terminated => FinalProduced
    /\ ~Terminated => ENABLED Next

----------------------------------------------------------------------------
(* Properties of the handlers that answer through GeminiStreamingResponse *)

\* the request was well formed and every upstream operation succeeded: the
\* handler has gone on to construct its response
ResponseConstructed ==
    /\ endpoint \in HelperEndpoints
    /\ pc = "done"
    /\ client_ops # <<>>
    /\ Last(client_ops) = "GeminiStreamingResponse"

\* C34: for a well-formed POST (non-empty content, valid api_key, package
\* available, responsive upstream) handler() of process_gemini_stream.py and
\* of file_visualization/process_gemini_stream.py returns a streaming event
\* response built by GeminiStreamingResponse, not a 500 error response: the
\* class of helper_function.py accepts the way the handler constructs and
\* uses it.
C34_HandlerStreams ==
    ResponseConstructed =>
        /\ response = 200
        /\ ConstructorAccepts(HandlerKeywords(endpoint))
        /\ HandlerMethod \in StreamingResponseMethods

----------------------------------------------------------------------------
(* Properties of the framing of the events of gemini_stream_generator *)

\* the type an event has for its reader: the "type" member of its data when
\* there is one, else the event type it was formatted with
LogicalType(e) == IF e.dtype # "" THEN e.dtype ELSE e.kind

NamedComplete(e) == e.name = "message_complete"

\* C35: every event of gemini_stream_generator is framed under an SSE event
\* name equal to its logical event type; the completion is sent as an event
\* named message_complete and not under the name of another type, so that a
\* client dispatching on the event name sees exactly one message_complete in
\* a successful stream.
C35_NamedByType ==
    endpoint = "process-gemini-stream" =>
        /\ \A i \in 1..Len(events) : events[i].name = LogicalType(events[i])
        /\ (pc = "done" /\ Completions # {}) => Count(events, NamedComplete) = 1

----------------------------------------------------------------------------
(* Properties of the JSON of gemini_stream_endpoint *)

\* C36: the JSON gemini_stream_endpoint returns reports success: true only
\* if its events list holds a message_complete event; a request whose events
\* consist of or end with an error event (package unavailable, client
\* creation failure, generation and fallback both failed) is not reported
\* with success: true and status 200.
C36_SuccessMeansComplete ==
    (endpoint = "gemini-stream-edge" /\ pc = "done" /\ response = 200
        /\ EdgeResult(events).success) =>
        /\ \E i \in 1..Len(events) : IsComplete(events[i])
        /\ ~IsError(Last(events))

----------------------------------------------------------------------------
(* Properties of the keepalive events of process_stream_request *)

IsKeepalive(e) == e.kind = "keepalive"

\* C37: process_stream_request sends a keepalive every 15 chunks: for every
\* k >= 1, once 15 * k chunks have been received from the upstream stream, at
\* least k keepalive events have been appended, whatever the chunks carry
\* (empty text, non-empty text, or a text whose extraction fails).
C37_KeepaliveEveryFifteen ==
    endpoint = "gemini-stream-edge" =>
        Count(events, IsKeepalive) >= chunks_received \div KEEPALIVE_CHUNKS

----------------------------------------------------------------------------
(* Properties of the keepalive timing of gemini_stream_generator *)

\* C38: in gemini_stream_generator the keepalive timing resets on every
\* content flush: no keepalive event is emitted less than 3 seconds after the
\* most recent content flush, and between two keepalives with no flush in
\* between at least 3 seconds elapse.
C38_KeepaliveResetByFlush ==
    endpoint = "process-gemini-stream" => clock.gap >= KEEPALIVE_SECONDS

\* a batch of content was flushed and, three seconds later or more, the loop
\* has sent a keepalive
C38_Witness ==
    /\ endpoint = "process-gemini-stream"
    /\ pc = "streaming"
    /\ clock.gap = KEEPALIVE_SECONDS
    /\ \E i, j \in 1..Len(events) :
          /\ i < j
          /\ IsContentEvent(events[i])
          /\ IsKeepalive(events[j])

====
